---------------------------- MODULE Spec2Model ----------------------------
(***************************************************************************)
(* Model of the audit engine of Petrpejsek/sitee: the single-instance      *)
(* worker lease (worker.py), the crawl controller and its safety gate      *)
(* (services/scraper.py), the deterministic evidence extractor             *)
(* (services/evidence_extractor.py) and the Stage A generation loop with   *)
(* its post-processing, validation and persistence (services/              *)
(* llm_auditor.py, schemas.py, services/report_generator.py).              *)
(***************************************************************************)
EXTENDS Integers, Sequences, FiniteSets, Bags, TLC

VARIABLES
    \* ---- worker lease (worker.py) ----
    pid_file,      \* logs/worker.pid: [kind: "absent" | "garbage" | "pid", pid]
    wpc,           \* position of each worker process
    old_pid,       \* the pid each worker read from the file in acquire()
    locked,        \* SingleInstanceLock.locked of each worker
    pid_taken,     \* pids of ended processes now held by unrelated processes
    \* ---- evidence extractor (services/evidence_extractor.py) ----
    ev_pages,      \* pages handed to build_evidence_layer
    ev_domain,     \* fallback_domain
    ev_locale,     \* locale
    ev_done,       \* build_evidence_layer has returned
    ev_calls,      \* calls of build_evidence_layer on these inputs so far
    ev_layer,      \* the evidence layer it returned
    \* ---- crawl controller (services/scraper.py) ----
    scraped_pages, \* table scraped_pages: a bag of rows
    job_domain,    \* AuditJob.target_domain of each job
    job_competitors, \* AuditJob.competitor_domains of each job
    cr_runs,       \* number of scrape_job calls started so far
    cr_pc,         \* position of the running scrape_job / scrape_domain
    cr_job,        \* job_id of the running scrape_job
    cr_todo,       \* competitor domains scrape_job has still to crawl
    cr_domain,     \* scrape_domain: the normalized domain
    cr_is_target,  \* scrape_domain: is_target
    visited,       \* scrape_domain: visited
    to_visit,      \* scrape_domain: to_visit
    pages_scraped, \* scrape_domain: pages_scraped
    priority_urls, \* scrape_domain: priority_urls (as a set)
    debug,         \* scrape_domain: the ScrapeDebug object
    total_scraped, \* scrape_job: total_scraped
    net,           \* network requests issued by the latest step, in order
    robots_content, \* check_robots: lines of the robots.txt it has just read
    fetch_result,  \* what fetch_page returned to the latest step, if called
    fetch_reject,  \* the check of fetch_page that turned the response down
    loop_delay,    \* main loop: "none" before its first fetch, then "fetched",
                   \* and "slept" once asyncio.sleep(0.2) has run since
    max_pages_target, \* settings.max_pages_target
    \* ---- Stage A post-processing (services/llm_auditor.py) ----
    pp_response,   \* a parsed generator response (audit_json after json.loads)
    pp_done,       \* the response has gone through lines 1428-1805
    pp_audit_json, \* audit_json after post-processing
    pp_accepted,   \* AuditResult(**audit_json) raised no ValidationError
    pp_direct,     \* outcome of AuditResult(**document) on the document as given
    \* ---- generation pipeline (worker.py, llm_auditor.py, report_generator.py) ----
    job_status,        \* AuditJob.status
    job_error_message, \* AuditJob.error_message ("" is None)
    job_error_stage,   \* the stage in the brackets that open error_message
    current_stage,     \* AuditJob.current_stage ("" is None)
    job_audit_result,  \* AuditJob.audit_result (NoDoc is None)
    audit_output,      \* AuditOutput.audit_json of the job (NoDoc: no row)
    g_runs,            \* number of run_audit calls started so far
    g_pc,              \* position of the pipeline
    target_pages,      \* run_audit: target_pages
    competitor_pages,  \* run_audit: len(competitor_pages)
    stack,             \* frames of run_stage_a, outermost first
    calls,             \* remote generation calls issued by this run
    stage_a_result,    \* run_audit: stage_a_result
    run_start,         \* the persisted documents when this run started
    total_pages,       \* run_audit_pipeline: total_pages of the latest crawl
    page_rows,         \* number of ScrapedPage rows stored for the job
    \* ---- run_stage_a, attempt by attempt ----
    sa_stack,          \* frames of run_stage_a with their prompt
    sa_calls,          \* remote generation calls issued
    sa_history,        \* what every call so far gave, in order
    sa_result,         \* the document run_stage_a returned
    sa_pc,             \* "calling", "returned" or "raised"
    \* ---- _qa_validate_and_fix ----
    qa_result,         \* the stage_a_result handed to the QA gate
    qa_done,           \* the QA gate has run
    qa_before,         \* the stage_a_result as it was when the gate started
    qa_error,          \* the gate raised and run_audit caught it
    \* ---- _enrich_packages_with_architecture, two runs side by side ----
    en_pages,          \* the target pages both runs were given
    en_locale,         \* the locale of each run
    en_generated,      \* the validated document of each run
    en_result,         \* the document of each run after the enrichment
    en_done            \* the runs whose enrichment has been applied

lockVars == <<pid_file, wpc, old_pid, locked, pid_taken>>

evVars == <<ev_pages, ev_domain, ev_locale, ev_done, ev_layer, ev_calls>>

crawlVars == <<scraped_pages, job_domain, job_competitors, cr_runs, cr_pc,
               cr_job, cr_todo, cr_domain, cr_is_target, visited, to_visit,
               pages_scraped, priority_urls, debug, total_scraped, net,
               robots_content, fetch_result, max_pages_target, fetch_reject,
               loop_delay>>

postVars == <<pp_response, pp_done, pp_audit_json, pp_accepted, pp_direct>>

genVars == <<job_status, job_error_message, job_audit_result, audit_output,
             g_runs, g_pc, target_pages, competitor_pages, stack, calls,
             stage_a_result, run_start, total_pages, page_rows,
             job_error_stage, current_stage>>

stageAVars == <<sa_stack, sa_calls, sa_history, sa_result, sa_pc>>

qaVars == <<qa_result, qa_done, qa_before, qa_error>>

enVars == <<en_pages, en_locale, en_generated, en_result, en_done>>

tailVars == <<enVars>>

vars == <<pid_file, wpc, old_pid, locked, pid_taken,
          ev_pages, ev_domain, ev_locale, ev_done, ev_layer, ev_calls,
          scraped_pages, job_domain, job_competitors, cr_runs, cr_pc,
          cr_job, cr_todo, cr_domain, cr_is_target, visited, to_visit,
          pages_scraped, priority_urls, debug, total_scraped, net,
          robots_content, fetch_result, max_pages_target, fetch_reject,
          loop_delay,
          pp_response, pp_done, pp_audit_json, pp_accepted, pp_direct,
          job_status, job_error_message, job_audit_result, audit_output,
          g_runs, g_pc, target_pages, competitor_pages, stack, calls,
          stage_a_result, run_start, total_pages, page_rows,
          job_error_stage, current_stage,
          sa_stack, sa_calls, sa_history, sa_result, sa_pc,
          qa_result, qa_done, qa_before, qa_error,
          en_pages, en_locale, en_generated, en_result, en_done>>

(***************************************************************************)
(* Worker lease: SingleInstanceLock and main() of worker.py                *)
(***************************************************************************)

\* Number of worker processes that may be started.
NumWorkers == 2

Workers == 1..NumWorkers

\* A pid left in the file by a process that no longer exists.
DeadPid == 0

NoFile == [kind |-> "absent", pid |-> DeadPid]
GarbageFile == [kind |-> "garbage", pid |-> DeadPid]
PidFileOf(p) == [kind |-> "pid", pid |-> p]

\* A liveness check that takes a worker on its way out for gone.
OnlyRunningExists(pid) ==
    /\ pid \in Workers
    /\ wpc[pid] = "running"

\* os.kill(pid, 0) succeeds (or raises PermissionError): a process with
\* this pid exists, a worker or any other process of the machine.
ProcessExists(pid) ==
    \/ /\ pid \in Workers
       /\ wpc[pid] \notin {"not_started", "exited", "crashed"}
    \/ pid \in pid_taken

InitLock ==
    /\ pid_file \in {NoFile, GarbageFile, PidFileOf(DeadPid)}
    /\ wpc = [w \in Workers |-> "not_started"]
    /\ old_pid = [w \in Workers |-> DeadPid]
    /\ locked = [w \in Workers |-> FALSE]
    /\ pid_taken = {}

\* main(): lock = SingleInstanceLock(PID_FILE); lock.acquire() begins.
StartWorker(w) ==
    /\ wpc[w] = "not_started"
    /\ wpc' = [wpc EXCEPT ![w] = "acq_exists"]
    /\ UNCHANGED <<pid_file, old_pid, locked>>
    /\ UNCHANGED pid_taken

\* acquire(): if self.pid_file.exists()
AcquireExists(w) ==
    /\ wpc[w] = "acq_exists"
    /\ wpc' = [wpc EXCEPT ![w] =
                 IF pid_file.kind = "absent" THEN "acq_write" ELSE "acq_read"]
    /\ UNCHANGED <<pid_file, old_pid, locked>>
    /\ UNCHANGED pid_taken

\* acquire(): old_pid = int(self.pid_file.read_text().strip());
\* FileNotFoundError and ValueError fall through to the write.
AcquireRead(w) ==
    /\ wpc[w] = "acq_read"
    /\ IF pid_file.kind \in {"absent", "garbage"}
          THEN /\ wpc' = [wpc EXCEPT ![w] = "acq_write"]
               /\ UNCHANGED old_pid
          ELSE /\ old_pid' = [old_pid EXCEPT ![w] = pid_file.pid]
               /\ wpc' = [wpc EXCEPT ![w] = "acq_kill"]
    /\ UNCHANGED <<pid_file, locked>>
    /\ UNCHANGED pid_taken

\* acquire(): os.kill(old_pid, 0); a live holder makes acquire() return
\* False and main() call sys.exit(1); ProcessLookupError falls through.
AcquireKill(w) ==
    /\ wpc[w] = "acq_kill"
    /\ wpc' = [wpc EXCEPT ![w] =
                 IF ProcessExists(old_pid[w]) THEN "exited" ELSE "acq_write"]
    /\ UNCHANGED <<pid_file, old_pid, locked>>
    /\ UNCHANGED pid_taken

\* acquire(): self.pid_file.write_text(str(os.getpid())); self.locked = True;
\* return True.  main() then runs init_db() and process_jobs().
AcquireWrite(w) ==
    /\ wpc[w] = "acq_write"
    /\ pid_file' = PidFileOf(w)
    /\ locked' = [locked EXCEPT ![w] = TRUE]
    /\ wpc' = [wpc EXCEPT ![w] = "running"]
    /\ UNCHANGED old_pid
    /\ UNCHANGED pid_taken

\* main(): the finally clause, the signal handler or atexit call release().
StopWorker(w) ==
    /\ wpc[w] = "running"
    /\ wpc' = [wpc EXCEPT ![w] = "rel_exists"]
    /\ UNCHANGED <<pid_file, old_pid, locked>>
    /\ UNCHANGED pid_taken

\* release(): if self.locked and self.pid_file.exists()
ReleaseExists(w) ==
    /\ wpc[w] = "rel_exists"
    /\ wpc' = [wpc EXCEPT ![w] =
                 IF locked[w] /\ pid_file.kind # "absent" THEN "rel_read" ELSE "exited"]
    /\ UNCHANGED <<pid_file, old_pid, locked>>
    /\ UNCHANGED pid_taken

\* release(): current_pid = int(self.pid_file.read_text().strip());
\* if current_pid == os.getpid() ...
ReleaseRead(w) ==
    /\ wpc[w] = "rel_read"
    /\ wpc' = [wpc EXCEPT ![w] =
                 IF pid_file = PidFileOf(w) THEN "rel_unlink" ELSE "exited"]
    /\ UNCHANGED <<pid_file, old_pid, locked>>
    /\ UNCHANGED pid_taken

\* release(): self.pid_file.unlink(); self.locked = False
\* (FileNotFoundError is swallowed and leaves locked set).
ReleaseUnlink(w) ==
    /\ wpc[w] = "rel_unlink"
    /\ IF pid_file.kind = "absent"
          THEN UNCHANGED <<pid_file, locked>>
          ELSE /\ pid_file' = NoFile
               /\ locked' = [locked EXCEPT ![w] = FALSE]
    /\ wpc' = [wpc EXCEPT ![w] = "exited"]
    /\ UNCHANGED old_pid
    /\ UNCHANGED pid_taken

\* The process is killed (SIGKILL, power loss): no release() runs.
CrashWorker(w) ==
    /\ wpc[w] = "running"
    /\ wpc' = [wpc EXCEPT ![w] = "crashed"]
    /\ UNCHANGED <<pid_file, old_pid, locked>>
    /\ UNCHANGED pid_taken

\* The operating system hands the pid of an ended process to a new process
\* that has nothing to do with the worker (pids are recycled; the lease
\* file outlives a reboot).
ReusePid(p) ==
    /\ p \in ({DeadPid} \cup {w \in Workers : wpc[w] \in {"exited", "crashed"}})
    /\ p \notin pid_taken
    /\ pid_taken' = pid_taken \cup {p}
    /\ UNCHANGED <<pid_file, wpc, old_pid, locked>>

NextLock ==
    \/ \E w \in Workers : StartWorker(w)
    \/ \E w \in Workers : AcquireExists(w)
    \/ \E w \in Workers : AcquireRead(w)
    \/ \E w \in Workers : AcquireKill(w)
    \/ \E w \in Workers : AcquireWrite(w)
    \/ \E w \in Workers : StopWorker(w)
    \/ \E w \in Workers : ReleaseExists(w)
    \/ \E w \in Workers : ReleaseRead(w)
    \/ \E w \in Workers : ReleaseUnlink(w)
    \/ \E w \in Workers : CrashWorker(w)
    \/ \E p \in {DeadPid} \cup Workers : ReusePid(p)

(***************************************************************************)
(* URLs.  A URL is the record of its parsed parts (urllib.parse.urlparse): *)
(* scheme, host (netloc), path and whether it carries a fragment.  String  *)
(* operations on the parts are tables over the strings the model uses.     *)
(***************************************************************************)

Url(s, h, p) == [scheme |-> s, host |-> h, path |-> p, frag |-> FALSE]

\* str.lower() on a host name.
Lower(h) == IF h = "A.com" THEN "a.com" ELSE h

\* path.rstrip("/") or "/"
RstripSlashOrRoot(p) ==
    CASE p = "" -> "/"
      [] p = "/pricing/" -> "/pricing"
      [] OTHER -> p

\* WebScraper.normalize_url: http becomes https, the host is lower-cased,
\* trailing slashes are stripped and the fragment is dropped.
normalize_url(u) ==
    [scheme |-> IF u.scheme = "http" THEN "https" ELSE u.scheme,
     host   |-> Lower(u.host),
     path   |-> RstripSlashOrRoot(u.path),
     frag   |-> FALSE]

\* WebScraper.get_url_hash: SHA-256 of the normalized URL; the digest is
\* represented by the text it is computed from (no collisions).
get_url_hash(u) == normalize_url(u)

\* Position of a path / host / scheme in the string order Python sorts by.
PathRank(p) ==
    CASE p = "" -> 0
      [] p = "/" -> 1
      [] p = "/about" -> 2
      [] p = "/blog" -> 3
      [] p = "/contact" -> 4
      [] p = "/home" -> 5
      [] p = "/pricing" -> 6
      [] p = "/pricing/" -> 7
      [] p = "/services" -> 8
      [] p = "/team" -> 9
      [] OTHER -> 10

HostRank(h) ==
    CASE h = "10.0.0.5" -> 0
      [] h = "127.0.0.1" -> 1
      [] h = "169.254.169.254" -> 2
      [] h = "A.com" -> 3
      [] h = "a.com" -> 4
      [] h = "b.com" -> 5
      [] h = "localhost" -> 6
      [] h = "www.a.com" -> 7
      [] OTHER -> 8

SchemeRank(s) ==
    CASE s = "ftp" -> 0
      [] s = "http" -> 1
      [] s = "https" -> 2
      [] OTHER -> 3

\* u sorts before v as a string.
UrlLess(u, v) ==
    \/ SchemeRank(u.scheme) < SchemeRank(v.scheme)
    \/ /\ u.scheme = v.scheme
       /\ \/ HostRank(u.host) < HostRank(v.host)
          \/ /\ u.host = v.host
             /\ \/ PathRank(u.path) < PathRank(v.path)
                \/ u.path = v.path /\ ~u.frag /\ v.frag

\* `kw in url.lower()` for the keywords the code looks for.
UrlContains(u, kw) ==
    LET p == u.path IN
    CASE kw = "pricing" -> p \in {"/pricing", "/pricing/"}
      [] kw = "price"   -> FALSE
      [] kw = "prices"  -> FALSE
      [] kw = "plans"   -> FALSE
      [] kw = "contact" -> p = "/contact"
      [] kw = "about"   -> p = "/about"
      [] kw = "service" -> p = "/services"
      [] kw = "services" -> p = "/services"
      [] kw = "blog"    -> p = "/blog"
      [] kw = "team"    -> p = "/team"
      [] OTHER -> FALSE

\* urlparse(url).path.rstrip("/") in {"", "/"}
IsHomePath(u) == u.path \in {"", "/"}

(***************************************************************************)
(* Sequence helpers                                                        *)
(***************************************************************************)

\* A slice that lets one element too many through.
TakeOneMore(seq, n) == SubSeq(seq, 1, IF n + 1 < Len(seq) THEN n + 1 ELSE Len(seq))

\* seq[:n]
Take(seq, n) == SubSeq(seq, 1, IF n < Len(seq) THEN n ELSE Len(seq))

Range(seq) == {seq[i] : i \in 1..Len(seq)}

\* [x for x in seq if Keep(x)]
RECURSIVE FilterSeq(_, _)
FilterSeq(seq, keep) ==
    IF seq = <<>> THEN <<>>
    ELSE (IF Head(seq) \in keep THEN <<Head(seq)>> ELSE <<>>)
         \o FilterSeq(Tail(seq), keep)

\* _dedupe_keep_order on items whose text is already whitespace-normal:
\* the first occurrence of every item is kept, in order.
RECURSIVE dedupe_keep_order(_)
dedupe_keep_order(seq) ==
    IF seq = <<>> THEN <<>>
    ELSE LET init == dedupe_keep_order(SubSeq(seq, 1, Len(seq) - 1))
             last == seq[Len(seq)]
         IN IF last \in Range(init) THEN init ELSE Append(init, last)

\* Number of positions of seq holding x.
Count(seq, x) == Cardinality({i \in 1..Len(seq) : seq[i] = x})

\* sorted(set, key=lambda u: (-count[u], u)) as a sequence.
RECURSIVE SortByCount(_, _)
SortByCount(S, cnt) ==
    IF S = {} THEN <<>>
    ELSE LET first == CHOOSE u \in S : \A v \in S \ {u} :
                          \/ cnt[u] > cnt[v]
                          \/ cnt[u] = cnt[v] /\ UrlLess(u, v)
         IN <<first>> \o SortByCount(S \ {first}, cnt)

(***************************************************************************)
(* Evidence extractor (services/evidence_extractor.py).                    *)
(* A stored page is the record of what the extractor reads from it: its    *)
(* url and domain, html[lang], the hrefs inside nav/header, whether the    *)
(* text holds a pricing keyword and an e-mail address, whether a JSON-LD   *)
(* Organization block (with name and address) is present, its H1, the      *)
(* best offer sentence of its text ("" if none qualifies) and its meta     *)
(* description ("" if shorter than 60 characters).                         *)
(* Confidence values are in hundredths (0.75 is 75).                       *)
(***************************************************************************)

\* EvidenceExtractor(max_pages=15)
max_pages == 15

\* Name and address carried by the JSON-LD Organization block of the model.
OrgName == "Acme Roofing"
OrgAddress == "Prague"

\* _extract_internal_links: same-domain hrefs of nav/header, fragment
\* dropped, ordered by (-frequency, url), first 15.
extract_internal_links(page) ==
    LET same == {i \in 1..Len(page.nav) :
                   Lower(page.nav[i].host) = Lower(page.domain)}
        abs2(i) == [page.nav[i] EXCEPT !.frag = FALSE]
        urls == {abs2(i) : i \in same}
        nav_counts == [u \in urls |-> Cardinality({i \in same : abs2(i) = u})]
    IN Take(SortByCount(urls, nav_counts), 15)

\* EvidenceExtractor.extract_page
extract_page(page) ==
    [url |-> page.url,
     language |-> IF page.lang = "" THEN "not detected" ELSE page.lang,
     h1 |-> IF page.h1 = "" THEN "not detected" ELSE page.h1,
     text_excerpt |-> page.offer,
     meta_description |-> page.meta,
     headings |-> <<>>,
     structured_data_types |-> IF page.org THEN <<"Organization">> ELSE <<>>,
     jsonld |-> IF page.org THEN <<[type |-> "Organization", name |-> OrgName]>>
                ELSE <<>>,
     internal_links_top |-> Take(extract_internal_links(page), 10),
     signals |-> [pricing_detected |-> page.pricing,
                  pricing_snippets |->
                      IF page.pricing THEN <<"pricing from $99">> ELSE <<>>,
                  contact_detected |->
                      page.email \/ UrlContains(page.url, "contact"),
                  contact_snippets |-> <<>>,
                  emails_detected |->
                      IF page.email THEN <<"info@a.com">> ELSE <<>>,
                  phones_detected |-> <<>>,
                  locations_detected |->
                      IF page.org THEN <<OrgAddress>> ELSE <<>>]]

\* EvidenceExtractor.extract_pages: the first max_pages pages.
RECURSIVE MapExtract(_)
MapExtract(pages) ==
    IF pages = <<>> THEN <<>>
    ELSE <<extract_page(Head(pages))>> \o MapExtract(Tail(pages))

extract_pages(pages) == MapExtract(Take(pages, max_pages))

\* t.lower() in generic (build_company_profile's denylist of headings)
IsGenericHeading(h) == h \in {"Home", "Services", "About", "Contact"}

\* Concatenation of f(seq[i]) over the sequence.
RECURSIVE FlatMap(_, _)
FlatMap(seq, f) ==
    IF seq = <<>> THEN <<>> ELSE f[Head(seq)] \o FlatMap(Tail(seq), f)

\* EvidenceExtractor._top_pages: the ten most linked URLs over all blocks.
top_pages(blocks) ==
    LET all == FlatMap(blocks, [b \in Range(blocks) |-> b.internal_links_top])
        counts == [u \in Range(all) |-> Count(all, u)]
    IN Take(SortByCount(Range(all), counts), 10)

\* A profile that hands on what was found, nothing included.
OrNothing(found) == found

\* build_company_profile: offer_summary or "not detected" (None and the
\* empty string are written "").
or_not_detected(found) == IF found = "" THEN "not detected" ELSE found

\* EvidenceExtractor.build_company_profile
build_company_profile(blocks, fallback_domain) ==
    LET idx == 1..Len(blocks)
        withLang == {i \in idx : blocks[i].language # "not detected"}
        primary_language ==
            IF withLang = {} THEN ""
            ELSE blocks[CHOOSE i \in withLang : \A j \in withLang : i <= j].language
        isSvcPage(b) == IsHomePath(b.url) \/ UrlContains(b.url, "service")
        svcCand == [b \in Range(blocks) |->
                      IF isSvcPage(b) /\ b.h1 # "not detected"
                         /\ ~IsGenericHeading(b.h1)
                      THEN <<b.h1>> ELSE <<>>]
        services == Take(dedupe_keep_order(FlatMap(blocks, svcCand)), 12)
        homes == {i \in idx : IsHomePath(blocks[i].url)}
        named == {i \in idx : blocks[i].jsonld # <<>>}
        \* iter_pages_prefer_home: home pages first, then the others
        namedHome == named \cap homes
        pick == IF namedHome # {}
                THEN CHOOSE i \in namedHome : \A j \in namedHome : i <= j
                ELSE CHOOSE i \in named : \A j \in named : i <= j
        company_name ==
            IF named = {} THEN "" ELSE blocks[pick].jsonld[1].name
        withOffer == {i \in homes : blocks[i].text_excerpt # ""}
        \* iter_pages_prefer_home order: homes by index, then the others
        withMeta == {i \in idx : blocks[i].meta_description # ""}
        metaHome == withMeta \cap homes
        metaPick == IF metaHome # {}
                    THEN CHOOSE i \in metaHome : \A j \in metaHome : i <= j
                    ELSE CHOOSE i \in withMeta : \A j \in withMeta : i <= j
        offer_summary ==
            IF withOffer # {}
            THEN blocks[CHOOSE i \in withOffer : \A j \in withOffer : i <= j].text_excerpt
            ELSE IF withMeta # {} THEN blocks[metaPick].meta_description
            ELSE ""
        locations ==
            Take(dedupe_keep_order(
                   FlatMap(blocks, [b \in Range(blocks) |->
                                      b.signals.locations_detected])), 10)
    IN [company_name |->
            IF company_name # "" THEN company_name
            ELSE IF fallback_domain # "" THEN fallback_domain
            ELSE "this domain",
        primary_offer_summary |-> or_not_detected(offer_summary),
        services_detected |-> services,
        locations_detected |-> locations,
        primary_language_detected |-> or_not_detected(primary_language),
        top_pages |-> top_pages(blocks)]

\* locale.lower().split("-")[0] and detected.split("-")[0]
BaseLang(l) ==
    CASE l \in {"en", "en-US"} -> "en"
      [] l \in {"cs", "cs-CZ"} -> "cs"
      [] OTHER -> l

\* The add() helper of build_evidence_items: one EvidenceItem.
EvItem(claim, proof_type, source_urls, snippets, confidence) ==
    [claim |-> claim,
     proof_type |-> proof_type,
     source_urls |-> Take(dedupe_keep_order(source_urls), 3),
     snippets |-> Take(dedupe_keep_order(snippets), 3),
     confidence |-> confidence]

\* EvidenceExtractor.build_evidence_items
build_evidence_items(blocks, company_profile, locale) ==
    LET urls == [i \in 1..Len(blocks) |-> blocks[i].url]
        urlSet == Range(urls)
        pricing_urls == FilterSeq(urls, {u \in urlSet :
                            \E k \in {"pricing", "prices", "price", "plans"} :
                                UrlContains(u, k)})
        contact_urls == FilterSeq(urls, {u \in urlSet : UrlContains(u, "contact")})
        sig(f) == FlatMap(blocks, [b \in Range(blocks) |-> b.signals[f]])
        pricing_snips == sig("pricing_snippets")
        contact_snips == sig("contact_snippets")
        emails == sig("emails_detected")
        phones == sig("phones_detected")
        pricing ==
            IF pricing_urls # <<>> \/ pricing_snips # <<>>
            THEN EvItem("Pricing information is detectable", "pricing_present",
                        IF pricing_urls # <<>> THEN Take(pricing_urls, 3)
                        ELSE Take(urls, 1),
                        Take(pricing_snips, 2),
                        IF pricing_urls # <<>> THEN 75 ELSE 55)
            ELSE EvItem("No pricing page or pricing section was detected",
                        "no_pricing",
                        Take(company_profile.top_pages, 3),
                        <<"not detected">>, 65)
        contact ==
            IF contact_urls # <<>> \/ emails # <<>> \/ phones # <<>>
               \/ contact_snips # <<>>
            THEN EvItem("Contact details exist", "contact_present",
                        IF contact_urls # <<>> THEN Take(contact_urls, 2)
                        ELSE Take(urls, 2),
                        Take(dedupe_keep_order(emails \o phones \o contact_snips), 2),
                        IF contact_urls # <<>> THEN 80 ELSE 60)
            ELSE EvItem("No clear contact page, email, or phone was detected",
                        "no_contact",
                        Take(company_profile.top_pages, 3),
                        <<"not detected">>, 65)
        sd_types == dedupe_keep_order(
                        FlatMap(blocks, [b \in Range(blocks) |->
                                           b.structured_data_types]))
        entity ==
            IF "Organization" \in Range(sd_types) \/ "LocalBusiness" \in Range(sd_types)
            THEN EvItem("Entity signals are present in structured data",
                        "entity_signals_present", Take(urls, 2),
                        <<"structured_data_types: Organization">>, 80)
            ELSE EvItem("No Organization/LocalBusiness structured data was detected",
                        "weak_entity_signals", Take(urls, 2),
                        <<"structured_data_types: not detected">>, 60)
        detected == company_profile.primary_language_detected
        det2 == IF detected # "not detected" THEN BaseLang(detected) ELSE ""
        language ==
            IF locale # "" /\ det2 # "" /\ BaseLang(locale) # "" /\ det2 # BaseLang(locale)
            THEN <<EvItem("Primary language on the site appears to differ",
                          "language_mismatch", Take(urls, 2),
                          <<"html_lang_detected">>, 70)>>
            ELSE <<>>
        services == company_profile.services_detected
        has_service_url == \E u \in urlSet : UrlContains(u, "service")
        fragmented ==
            IF services # <<>> /\ ~has_service_url
            THEN <<EvItem("Service information appears present, but not organized",
                          "fragmented_content", Take(urls, 3),
                          <<"services_detected">>, 60)>>
            ELSE <<>>
    IN Take(<<pricing, contact, entity>> \o language \o fragmented, 12)

\* EvidenceItem.to_dict: at most 3 urls and snippets, confidence clamped
\* to [0, 1].
to_dict(e) ==
    [claim |-> e.claim,
     proof_type |-> e.proof_type,
     source_urls |-> Take(e.source_urls, 3),
     snippets |-> Take(e.snippets, 3),
     confidence |-> IF e.confidence < 0 THEN 0
                    ELSE IF e.confidence > 100 THEN 100 ELSE e.confidence]

\* EvidenceExtractor.build_evidence_layer
build_evidence_layer(pages, fallback_domain, locale) ==
    LET page_blocks == extract_pages(pages)
        company_profile == build_company_profile(page_blocks, fallback_domain)
        evidence_items == build_evidence_items(page_blocks, company_profile, locale)
    IN [company_profile |-> company_profile,
        pages |-> page_blocks,
        evidence |-> [i \in 1..Len(evidence_items) |-> to_dict(evidence_items[i])]]

(***************************************************************************)
(* Specification of the evidence extractor: the inputs are drawn from      *)
(* bounded sets and BuildEvidence applies build_evidence_layer to them.    *)
(***************************************************************************)

\* Largest number of pages handed to build_evidence_layer.
MaxEvPages == 2

\* Largest number of calls of build_evidence_layer on the same inputs.
MaxEvCalls == 2

EvPageUrls ==
    {Url("https", "a.com", "/"), Url("https", "a.com", "/pricing"),
     Url("https", "a.com", "/team")}

EvNavChoices ==
    {<<>>,
     <<Url("https", "a.com", "/team"), Url("https", "a.com", "/contact")>>,
     <<[Url("https", "a.com", "/pricing") EXCEPT !.frag = TRUE],
       Url("https", "b.com", "/"), Url("https", "a.com", "/about"),
       Url("https", "a.com", "/about")>>}

EvSignalChoices ==
    {[lang |-> "", pricing |-> FALSE, email |-> FALSE, org |-> FALSE,
      h1 |-> "", offer |-> "", meta |-> ""],
     [lang |-> "en", pricing |-> TRUE, email |-> FALSE, org |-> FALSE,
      h1 |-> "Home", offer |-> "", meta |-> "Roofing company in Prague"],
     [lang |-> "cs-CZ", pricing |-> FALSE, email |-> TRUE, org |-> TRUE,
      h1 |-> "Roof repair", offer |-> "We repair roofs", meta |-> ""],
     [lang |-> "en-US", pricing |-> TRUE, email |-> TRUE, org |-> TRUE,
      h1 |-> "Roof repair", offer |-> "We repair roofs",
      meta |-> "Roofing company in Prague"]}

EvPageChoices ==
    {[url |-> u, domain |-> "a.com", nav |-> n, lang |-> g.lang,
      pricing |-> g.pricing, email |-> g.email, org |-> g.org, h1 |-> g.h1,
      offer |-> g.offer, meta |-> g.meta] :
        u \in EvPageUrls, n \in EvNavChoices, g \in EvSignalChoices}

EvPageSeqs == UNION {[1..n -> EvPageChoices] : n \in 0..MaxEvPages}

EvLocales == {"", "en-US", "cs-CZ"}

\* job.target_domain: a required string of any length.
EvDomains == {"a.com", ""}

NoLayer == [company_profile |-> [company_name |-> ""], pages |-> <<>>,
            evidence |-> <<>>]

InitEvidence ==
    /\ ev_pages \in EvPageSeqs
    /\ ev_locale \in EvLocales
    /\ ev_domain \in EvDomains
    /\ ev_done = FALSE
    /\ ev_layer = NoLayer
    /\ ev_calls = 0

\* An extractor that takes the pages off the list it was given.
PagesConsumed(pages) == <<>>

\* The caller's list of pages after a call: extract_pages and extract_page
\* only read the ScrapedPage objects and build new dicts.
pages_after_call(pages) == pages

\* One call of build_evidence_layer(pages, fallback_domain, locale); the
\* caller may call again with the same arguments.
BuildEvidence ==
    /\ ev_calls < MaxEvCalls
    /\ ev_calls' = ev_calls + 1
    /\ ev_done' = TRUE
    /\ ev_layer' = build_evidence_layer(ev_pages, ev_domain, ev_locale)
    /\ ev_pages' = pages_after_call(ev_pages)
    /\ UNCHANGED <<ev_locale, ev_domain>>

(***************************************************************************)
(* Safety gate and crawl controller (services/scraper.py).                 *)
(***************************************************************************)

NoUrl == [scheme |-> "", host |-> "", path |-> "", frag |-> FALSE]

\* ipaddress.ip_address(host) lies in one of PRIVATE_IP_RANGES.
InPrivateRange(h) == h \in {"10.0.0.5", "127.0.0.1", "169.254.169.254"}

\* SSRFProtection.is_safe_url
is_safe_url(u) ==
    /\ u.scheme \in {"http", "https"}
    /\ Lower(u.host) \notin {"localhost", "127.0.0.1", "::1"}
    /\ ~InPrivateRange(u.host)

\* domain.replace("https://", "").replace("http://", "").strip("/")
StripDomain(d) == IF d = "https://a.com/" THEN "a.com" ELSE d

\* A keyword of the list occurs in url.lower() (host and path).
HasHighKeyword(u) == u.path \in {"/pricing", "/pricing/", "/about", "/services"}
HasMediumKeyword(u) == u.path \in {"/blog", "/contact", "/team"}

\* WebScraper.identify_page_priority
identify_page_priority(u) ==
    IF IsHomePath(u) THEN 0
    ELSE IF HasHighKeyword(u) THEN 1
    ELSE IF HasMediumKeyword(u) THEN 2
    ELSE 3

\* WebScraper.extract_links: same netloc as the base URL, http(s), none of
\* the skip patterns ('#' drops every URL with a fragment), normalized.
extract_links(hrefs, base_url) ==
    {normalize_url(h) : h \in {x \in hrefs :
        /\ Lower(x.host) = Lower(base_url.host)
        /\ x.scheme \in {"http", "https"}
        /\ ~x.frag}}

\* Table scraped_pages: select ... where url_hash == h and audit_job_id == j
ExistingInJob(db, j, h) ==
    \E r \in BagToSet(db) : r.url_hash = h /\ r.audit_job_id = j

\* url_hash = Column(String(64), unique=True): the commit raises
\* IntegrityError when any row already holds the hash.
UniqueViolation(db, h) == \E r \in BagToSet(db) : r.url_hash = h

\* The save with neither the per-job lookup nor the unique constraint.
StorePageUnguarded(db, row) == db (+) SetToBag({row})

\* Dedup guard and save of one page: the per-job lookup, db.add and
\* db.commit with rollback on IntegrityError.
StorePage(db, row) ==
    IF ExistingInJob(db, row.audit_job_id, row.url_hash)
       \/ UniqueViolation(db, row.url_hash)
    THEN db
    ELSE db (+) SetToBag({row})

PageRow(j, u, h, d, t) ==
    [audit_job_id |-> j, url |-> u, url_hash |-> h, domain |-> d,
     is_target |-> t]

\* The blocking codes without 403.
BlockingStatusWithout403 == {406, 429, 503}

\* HTTP status codes fetch_page treats as blocking.
BlockingStatus == {403, 406, 429, 503}

\* ScrapeDebug.__init__: the fields that decide what scrape_domain returns
\* (blocked_reason, robots_disallows_all, final_url), the homepage status
\* and the failure counter.
NewDebug ==
    [blocked_reason |-> "", homepage_status_code |-> 0, final_url |-> NoUrl,
     robots_disallows_all |-> FALSE, pages_failed |-> 0]

\* The lines of a robots.txt body, lower-cased.
RobotsBodies ==
    {<<>>,
     <<"user-agent: *", "disallow: /">>,
     <<"user-agent: *", "disallow: /admin">>,
     <<"user-agent: *", "allow: /a", "allow: /b", "allow: /c", "allow: /d",
       "disallow: /">>,
     <<"user-agent: bot", "disallow: /">>}

\* check_robots: a line 'disallow: /' among the four lines that follow a
\* 'user-agent: *' line.
RobotsDisallowsAll(lines) ==
    \E i \in 1..Len(lines) :
        /\ lines[i] = "user-agent: *"
        /\ \E j \in (i + 1)..(i + 4) :
               j <= Len(lines) /\ lines[j] = "disallow: /"

\* What the network answers to one GET: the redirect hops httpx follows
\* (follow_redirects=True), then an exception or a response.
\*   kind: "response" | "timeout" | "connect_ssl" | "connect_dns" |
\*         "connect_other" | "exception"
\*   status, html (content type is text/html), small (size within limit),
\*   links (hrefs of the page, made absolute)
HopChoices == {<<>>, <<Url("http", "127.0.0.1", "/")>>}

LinkChoices ==
    {{},
     {Url("http", "a.com", "/pricing/"), Url("https", "A.com", "/"),
      Url("https", "b.com", "/team"), Url("ftp", "a.com", "/x"),
      [Url("https", "a.com", "/blog") EXCEPT !.frag = TRUE]}}

Answer(k, st, html, small, hops, links) ==
    [kind |-> k, status |-> st, html |-> html, small |-> small,
     hops |-> hops, links |-> links]

Answers ==
    {Answer("response", 200, TRUE, TRUE, h, l) : h \in HopChoices, l \in LinkChoices}
    \cup {Answer("response", st, TRUE, TRUE, <<>>, {}) : st \in {403, 429, 404, 500}}
    \cup {Answer("response", 200, FALSE, TRUE, <<>>, {}),
          Answer("response", 200, TRUE, FALSE, <<>>, {})}
    \cup {Answer(k, 0, FALSE, FALSE, <<>>, {}) :
            k \in {"timeout", "connect_ssl", "connect_dns", "connect_other",
                   "exception"}}

\* fetch_page, lines 251-261: the check that turns down a response whose
\* status is below 400: the content type first, then the size.
rejected_by(u, a) ==
    IF is_safe_url(u) /\ a.kind = "response" /\ a.status < 400
    THEN IF ~a.html THEN "content_type"
         ELSE IF ~a.small THEN "size" ELSE ""
    ELSE ""

\* A fetch that takes whatever a response below 400 carries.
FetchTakesAnyBody(u, a) ==
    /\ is_safe_url(u)
    /\ a.kind = "response"
    /\ a.status < 400

\* fetch_page returns a tuple (not None).
FetchSucceeds(u, a) ==
    /\ is_safe_url(u)
    /\ a.kind = "response"
    /\ a.status < 400
    /\ a.html
    /\ a.small

\* fetch_page: the debug object after a fetch of u answered by a.
fetch_page_debug(dbg, u, a, is_homepage) ==
    IF ~is_safe_url(u) THEN dbg
    ELSE
    LET d2 == IF is_homepage /\ a.kind = "response"
              THEN [dbg EXCEPT !.homepage_status_code = a.status,
                              !.final_url = IF a.hops = <<>> THEN u
                                            ELSE a.hops[Len(a.hops)]]
              ELSE dbg
        failed(r) == [d2 EXCEPT !.pages_failed = @ + 1,
                                !.blocked_reason = IF is_homepage THEN r ELSE @]
    IN CASE a.kind = "response" /\ a.status \in BlockingStatus -> failed("403_waf")
         [] a.kind = "response" /\ a.status \notin BlockingStatus /\ a.status >= 400 ->
                [d2 EXCEPT !.pages_failed = @ + 1]
         [] a.kind = "response" /\ a.status < 400 -> d2
         [] a.kind = "timeout" -> failed("timeout")
         [] a.kind = "connect_ssl" -> failed("ssl")
         [] a.kind = "connect_dns" -> failed("dns")
         [] a.kind = "connect_other" -> failed("connection")
         [] OTHER -> failed("unknown")

\* The requests client.get(u) puts on the network: u, then every hop.
RequestsOf(u, a) == <<u>> \o a.hops

\* settings.max_pages_target / settings.max_pages_competitor, scaled down.
MaxPagesTarget == 3
MaxPagesCompetitor == 2

\* Largest number of scrape_job calls in one behaviour (first runs and
\* re-runs together).
MaxRuns == 2

Jobs == {"job1", "job2"}

DomainChoices == {"a.com", "127.0.0.1"}

CompetitorChoices == {<<>>, <<"", "b.com">>}

SitemapChoices ==
    {<<Url("https", "a.com", "/pricing/"), Url("https", "b.com", "/team"),
       Url("http", "127.0.0.1", "/")>>}

\* "www." + domain
WwwOf(d) ==
    CASE d = "a.com" -> "www.a.com"
      [] d = "b.com" -> "www.b.com"
      [] OTHER -> d

\* find_sitemap: sitemap_urls_to_try
SitemapCandidates(d) ==
    <<Url("https", d, "/sitemap.xml"), Url("https", d, "/sitemap_index.xml"),
      Url("https", WwwOf(d), "/sitemap.xml")>>

\* sorted(links, key=identify_page_priority)[:n] as a set: the n links of
\* lowest priority number (any choice among equals).
RECURSIVE FirstByPriority(_, _)
FirstByPriority(links, n) ==
    IF n = 0 \/ links = {} THEN {}
    ELSE LET best == CHOOSE u \in links : \A v \in links :
                 identify_page_priority(u) <= identify_page_priority(v)
         IN {best} \cup FirstByPriority(links \ {best}, n - 1)

\* Locals of scrape_domain when it is entered for domain d.
EnterDomain(d, is_target) ==
    /\ cr_domain' = StripDomain(d)
    /\ cr_is_target' = is_target
    /\ visited' = {}
    /\ to_visit' = {}
    /\ pages_scraped' = 0
    /\ priority_urls' = {}
    /\ debug' = NewDebug
    /\ cr_pc' = "robots"

\* scrape_job: the max_pages it hands to scrape_domain.
max_pages_of(is_target) ==
    IF is_target THEN max_pages_target ELSE MaxPagesCompetitor

InitCrawl ==
    /\ scraped_pages = EmptyBag
    /\ \E d \in DomainChoices :
           job_domain = [j \in Jobs |-> IF j = "job1" THEN d ELSE "https://a.com/"]
    /\ \E c \in CompetitorChoices :
           job_competitors = [j \in Jobs |-> IF j = "job1" THEN c ELSE <<>>]
    /\ cr_runs = 0
    /\ cr_pc = "idle"
    /\ cr_job = "job1"
    /\ cr_todo = <<>>
    /\ cr_domain = ""
    /\ cr_is_target = TRUE
    /\ visited = {}
    /\ to_visit = {}
    /\ pages_scraped = 0
    /\ priority_urls = {}
    /\ debug = NewDebug
    /\ total_scraped = 0
    /\ net = <<>>
    /\ robots_content = <<>>
    /\ fetch_result = "no_fetch"
    /\ fetch_reject = ""
    /\ loop_delay = "none"
    /\ max_pages_target \in {0, MaxPagesTarget}

\* scrape_job(job_id) up to the call of scrape_domain for the target; a
\* job is crawled when first queued and again after a re-run or retry.
StartScrapeJob(j) ==
    /\ cr_pc = "idle"
    /\ cr_runs < MaxRuns
    /\ cr_runs' = cr_runs + 1
    /\ cr_job' = j
    /\ cr_todo' = job_competitors[j]
    /\ total_scraped' = 0
    /\ net' = <<>>
    /\ fetch_result' = "no_fetch" /\ fetch_reject' = ""
    /\ EnterDomain(job_domain[j], TRUE)
    /\ UNCHANGED <<scraped_pages, job_domain, job_competitors, robots_content>>
    /\ UNCHANGED max_pages_target
    /\ loop_delay' = "none"

\* scrape_domain: check_robots and the early return on a blanket disallow.
CheckRobots ==
    /\ cr_pc = "robots"
    /\ \E st \in {200, 404, 0}, body \in RobotsBodies :
         LET disallow == st = 200 /\ RobotsDisallowsAll(body)
         IN /\ net' = <<Url("https", cr_domain, "/robots.txt")>>
            /\ fetch_result' = "no_fetch" /\ fetch_reject' = ""
            /\ robots_content' = IF st = 200 THEN body ELSE <<>>
            /\ debug' = [debug EXCEPT
                   !.robots_disallows_all = disallow,
                   !.blocked_reason = IF disallow THEN "robots_disallow" ELSE @]
            /\ cr_pc' = IF disallow THEN "returned" ELSE "homepage"
    /\ UNCHANGED <<scraped_pages, job_domain, job_competitors, cr_runs, cr_job,
                   cr_todo, cr_domain, cr_is_target, visited, to_visit,
                   pages_scraped, priority_urls, total_scraped>>
    /\ UNCHANGED max_pages_target
    /\ UNCHANGED loop_delay

\* scrape_domain: the homepage fetch, the early return when it fails, the
\* save of the homepage and the seeding of to_visit from its links.
FetchHomepage ==
    /\ cr_pc = "homepage"
    /\ \E a \in Answers :
         LET start_url == Url("https", cr_domain, "")
             dbg == fetch_page_debug(debug, start_url, a, TRUE)
             final == IF dbg.final_url # NoUrl THEN dbg.final_url ELSE start_url
             row == PageRow(cr_job, final, get_url_hash(start_url), cr_domain,
                            cr_is_target)
             homepage_links == extract_links(a.links, start_url)
         IN /\ net' = IF is_safe_url(start_url) THEN RequestsOf(start_url, a)
                      ELSE <<>>
            /\ fetch_result' = IF FetchSucceeds(start_url, a) THEN "page"
                               ELSE "none"
            /\ fetch_reject' = rejected_by(start_url, a)
            /\ IF ~FetchSucceeds(start_url, a)
               THEN /\ debug' = [dbg EXCEPT !.blocked_reason =
                                    IF @ = "" THEN "homepage_failed" ELSE @]
                    /\ cr_pc' = "returned"
                    /\ UNCHANGED <<scraped_pages, visited, to_visit,
                                   pages_scraped, priority_urls>>
               ELSE /\ scraped_pages' = StorePage(scraped_pages, row)
                    /\ visited' = {start_url}
                    /\ priority_urls' = {final}
                    /\ pages_scraped' = 1
                    /\ debug' = dbg
                    /\ to_visit' = homepage_links \ {start_url}
                    /\ cr_pc' = "sitemap"
    /\ robots_content' = <<>>
    /\ UNCHANGED <<job_domain, job_competitors, cr_runs, cr_job, cr_todo,
                   cr_domain, cr_is_target, total_scraped>>
    /\ UNCHANGED max_pages_target
    /\ UNCHANGED loop_delay

\* scrape_domain: find_sitemap (the candidates are tried in order until one
\* answers 200 with <loc> entries) and the merge of its URLs into to_visit.
FindSitemap ==
    /\ cr_pc = "sitemap"
    /\ fetch_result' = "no_fetch" /\ fetch_reject' = ""
    /\ \E k \in 0..3 :
         LET cand == SitemapCandidates(cr_domain) IN
         IF k = 0
         THEN /\ net' = cand
              /\ UNCHANGED to_visit
         ELSE \E urls \in SitemapChoices :
              /\ net' = SubSeq(cand, 1, k)
              /\ to_visit' = to_visit \cup
                     {normalize_url(u) : u \in
                         {x \in Range(urls) : normalize_url(x) \notin visited}}
    /\ cr_pc' = "loop"
    /\ UNCHANGED <<scraped_pages, job_domain, job_competitors, cr_runs, cr_job,
                   cr_todo, cr_domain, cr_is_target, visited, pages_scraped,
                   priority_urls, debug, total_scraped, robots_content>>
    /\ UNCHANGED max_pages_target
    /\ UNCHANGED loop_delay

\* Links go into the frontier whether visited or not.
AddLinksUnfiltered(frontier, links, seen) == frontier \cup links

\* scrape_domain: `if link not in visited: to_visit.add(link)` over the
\* links of a page.
AddLinks(frontier, links, seen) == frontier \cup (links \ seen)

\* scrape_domain, lines 476-523: asyncio.sleep(0.2) is the last statement
\* of the loop body; the `continue` of an iteration whose fetch gave
\* nothing, or whose commit was rejected, goes past it.
delay_after(before, fetched, stored) ==
    IF stored THEN "slept"
    ELSE IF fetched THEN "fetched" ELSE before

\* scrape_domain: one iteration of `while to_visit and pages_scraped <
\* max_pages`; set.pop() takes an arbitrary element.
CrawlStep ==
    /\ cr_pc = "loop"
    /\ to_visit # {}
    /\ pages_scraped < max_pages_of(cr_is_target)
    /\ \E url \in to_visit, a \in Answers :
         LET url_hash == get_url_hash(url)
             rest == to_visit \ {url}
             row == PageRow(cr_job, url, url_hash, cr_domain, cr_is_target)
             saved == StorePage(scraped_pages, row)
             new_links == FirstByPriority(extract_links(a.links, url), 30)
         IN
         IF url \in visited
         THEN /\ to_visit' = rest
              /\ net' = <<>>
              /\ fetch_result' = "no_fetch" /\ fetch_reject' = ""
              /\ UNCHANGED <<scraped_pages, visited, pages_scraped,
                             priority_urls, debug, loop_delay>>
         ELSE IF ExistingInJob(scraped_pages, cr_job, url_hash)
         THEN /\ to_visit' = rest
              /\ visited' = visited \cup {url}
              /\ net' = <<>>
              /\ fetch_result' = "no_fetch" /\ fetch_reject' = ""
              /\ UNCHANGED <<scraped_pages, pages_scraped, priority_urls, debug,
                             loop_delay>>
         ELSE /\ net' = IF is_safe_url(url) THEN RequestsOf(url, a) ELSE <<>>
              /\ fetch_result' = IF FetchSucceeds(url, a) THEN "page" ELSE "none"
              /\ fetch_reject' = rejected_by(url, a)
              /\ debug' = fetch_page_debug(debug, url, a, FALSE)
              /\ visited' = visited \cup {url}
              /\ IF ~FetchSucceeds(url, a) \/ saved = scraped_pages
                 THEN /\ to_visit' = rest
                      /\ loop_delay' = delay_after(loop_delay, is_safe_url(url), FALSE)
                      /\ UNCHANGED <<scraped_pages, pages_scraped, priority_urls>>
                 ELSE /\ scraped_pages' = saved
                      /\ loop_delay' = delay_after(loop_delay, TRUE, TRUE)
                      /\ pages_scraped' = pages_scraped + 1
                      /\ priority_urls' =
                             IF identify_page_priority(url) <= 2
                             THEN priority_urls \cup {url} ELSE priority_urls
                      /\ to_visit' =
                             IF cr_is_target
                                /\ pages_scraped + 1 < max_pages_of(cr_is_target)
                             THEN AddLinks(rest, new_links, visited \cup {url})
                             ELSE rest
    /\ UNCHANGED <<job_domain, job_competitors, cr_runs, cr_pc, cr_job,
                   cr_todo, cr_domain, cr_is_target, total_scraped,
                   robots_content>>
    /\ UNCHANGED max_pages_target

\* scrape_domain: the loop condition fails; return pages_scraped,
\* priority_urls, debug.
CrawlReturn ==
    /\ cr_pc = "loop"
    /\ ~(to_visit # {} /\ pages_scraped < max_pages_of(cr_is_target))
    /\ cr_pc' = "returned"
    /\ net' = <<>>
    /\ fetch_result' = "no_fetch" /\ fetch_reject' = ""
    /\ UNCHANGED <<scraped_pages, job_domain, job_competitors, cr_runs, cr_job,
                   cr_todo, cr_domain, cr_is_target, visited, to_visit,
                   pages_scraped, priority_urls, debug, total_scraped,
                   robots_content>>
    /\ UNCHANGED max_pages_target
    /\ loop_delay' = "none"

\* The competitor entries scrape_job still crawls: blank ones are skipped.
RECURSIVE SkipBlank(_)
SkipBlank(todo) ==
    IF todo # <<>> /\ Head(todo) = "" THEN SkipBlank(Tail(todo)) ELSE todo

\* scrape_job after scrape_domain has returned: add up the count and go on
\* with the next competitor (only when the target crawl stored something),
\* or finish the job's scraping stage.
ScrapeJobContinue ==
    /\ cr_pc = "returned"
    /\ net' = <<>>
    /\ fetch_result' = "no_fetch" /\ fetch_reject' = ""
    /\ total_scraped' = total_scraped + pages_scraped
    /\ LET todo == IF cr_is_target /\ pages_scraped = 0 THEN <<>>
                   ELSE SkipBlank(cr_todo)
       IN IF todo # <<>>
          THEN /\ cr_todo' = Tail(todo)
               /\ EnterDomain(Head(todo), FALSE)
          ELSE /\ cr_todo' = <<>>
               /\ cr_pc' = "idle"
               /\ visited' = {}
               /\ to_visit' = {}
               /\ priority_urls' = {}
               /\ UNCHANGED <<cr_domain, cr_is_target, pages_scraped, debug>>
    /\ robots_content' = <<>>
    /\ UNCHANGED <<scraped_pages, job_domain, job_competitors, cr_runs, cr_job>>
    /\ UNCHANGED max_pages_target
    /\ loop_delay' = "none"

NextCrawl ==
    \/ \E j \in Jobs : StartScrapeJob(j)
    \/ CheckRobots
    \/ FetchHomepage
    \/ FindSitemap
    \/ CrawlStep
    \/ CrawlReturn
    \/ ScrapeJobContinue

(***************************************************************************)
(* Stage A documents: schema (schemas.py) and post-processing              *)
(* (LLMAuditor.run_stage_a, lines 1428-1805).                              *)
(*                                                                         *)
(* audit_json is a record: `keys` holds the top-level keys that are        *)
(* present among the four the post-processing looks at and the retired     *)
(* key ai_requirements; decision_readiness_audit is the sequence of the    *)
(* items' status values; the requirement arrays and missing_elements are   *)
(* sequences of item names; rest_ok says that every other section          *)
(* (stage_1 .. stage_5, appendix, the fields of the items) validates.      *)
(***************************************************************************)

NoDoc == [kind |-> "none"]

\* Schema minimum and maximum lengths (schemas.py).
dra_min == 12
dra_max == 18
req_min == 10
req_max == 20
missing_elements_min == 4
missing_elements_max == 6

Repeat(x, n) == [i \in 1..n |-> x]

\* The status values of the 12 fallback items created when
\* decision_readiness_audit is absent.
fallback_decision_audit ==
    <<"missing", "missing", "missing", "missing", "missing", "weak",
      "missing", "weak", "missing", "missing", "weak", "weak">>

\* requirement_name of the 15 items of fallback_before / fallback_after.
fallback_requirements ==
    <<"Pricing ranges / packages", "Service scope boundaries",
      "Process / how it works", "Alternatives / who it's NOT for",
      "Differentiation (measurable)", "Testimonials (context)",
      "Case studies (outcomes)", "About/team authority",
      "Guarantees/refunds/risk reducers", "FAQ objections",
      "Local/entity signals", "Structured summaries AI can quote",
      "Contact / conversion clarity", "Value anchors",
      "Policies / expectations">>

Score(p, w, m, t) == [present |-> p, weak |-> w, missing |-> m, total |-> t]

\* calculated_score
calculated_score(elements) ==
    Score(Count(elements, "present"),
          Count(elements, "weak") + Count(elements, "fragmented"),
          Count(elements, "missing"),
          Len(elements))

\* Lines 1428-1567: decision_readiness_audit fallback and padding, and the
\* decision_coverage_score override.
PostProcessDecision(audit_json) ==
    LET a1 == IF "decision_readiness_audit" \notin audit_json.keys
              THEN [audit_json EXCEPT
                      !.keys = @ \cup {"decision_readiness_audit"},
                      !.decision_readiness_audit = fallback_decision_audit]
              ELSE audit_json
        el0 == a1.decision_readiness_audit
        elements == IF Len(el0) < 12
                    THEN el0 \o Repeat("missing", 12 - Len(el0))
                    ELSE el0
        llm_score == a1.decision_coverage_score
        use_calculated ==
            \/ "decision_coverage_score" \notin a1.keys
            \/ llm_score.total = 0
            \/ llm_score.total # Len(elements)
    IN [a1 EXCEPT
          !.decision_readiness_audit = elements,
          !.keys = IF use_calculated THEN @ \cup {"decision_coverage_score"}
                   ELSE @,
          !.decision_coverage_score =
              IF use_calculated THEN calculated_score(elements) ELSE @]

\* Lines 1569-1797: a requirement array that is absent becomes [], and one
\* with fewer than 10 items is filled up from the fallback list.
PadRequirements(present, existing) ==
    LET ex == IF present THEN existing ELSE <<>>
    IN IF Len(ex) < 10
       THEN ex \o Take(fallback_requirements, 10 - Len(ex))
       ELSE ex

\* run_stage_a, lines 1428-1797: the whole post-processing of a parsed
\* response.
PostProcess(audit_json) ==
    LET a == PostProcessDecision(audit_json)
    IN [a EXCEPT
          !.keys = @ \cup {"ai_requirements_before", "ai_requirements_after"},
          !.ai_requirements_before =
              PadRequirements("ai_requirements_before" \in a.keys, @),
          !.ai_requirements_after =
              PadRequirements("ai_requirements_after" \in a.keys, @)]

\* class DecisionCoverageScore
DecisionCoverageScoreValid(sc) ==
    /\ sc.present \in 0..18
    /\ sc.weak \in 0..18
    /\ sc.missing \in 0..18
    /\ sc.total \in 12..18

\* class EvidenceLayer (EvidenceItem.confidence between 0 and 1).
EvidenceLayerValid(layer) ==
    \A i \in 1..Len(layer.evidence) :
        /\ layer.evidence[i].confidence >= 0
        /\ layer.evidence[i].confidence <= 100

\* class Appendix
AppendixValid(ap) ==
    /\ ap.pages_analyzed_target >= 0
    /\ ap.pages_analyzed_competitors >= 0

\* class AuditResult: the required top-level fields the model tells apart.
DeclaredKeys ==
    {"decision_readiness_audit", "decision_coverage_score",
     "ai_requirements_before", "ai_requirements_after"}

\* A configuration that lets undeclared fields through (extra = "ignore").
ExtraIgnore(keys) == TRUE

\* class AuditResult.Config: extra = "forbid"
extra_forbid(keys) == keys \subseteq DeclaredKeys

\* class AuditResult (extra = "forbid"): d validates.
SchemaValid(d) ==
    /\ d.kind = "doc"
    /\ d.rest_ok
    /\ DeclaredKeys \subseteq d.keys
    /\ extra_forbid(d.keys)
    /\ Len(d.decision_readiness_audit) >= dra_min
    /\ Len(d.decision_readiness_audit) <= dra_max
    /\ \A i \in 1..Len(d.decision_readiness_audit) :
           d.decision_readiness_audit[i] \in {"present", "weak", "missing"}
    /\ DecisionCoverageScoreValid(d.decision_coverage_score)
    /\ Len(d.ai_requirements_before) >= req_min
    /\ Len(d.ai_requirements_before) <= req_max
    /\ Len(d.ai_requirements_after) >= req_min
    /\ Len(d.ai_requirements_after) <= req_max
    /\ Len(d.ai_interpretation.missing_elements) >= missing_elements_min
    /\ Len(d.ai_interpretation.missing_elements) <= missing_elements_max
    /\ Len(d.stage_2_why_ai_chooses_others) <= 5
    /\ AppendixValid(d.appendix)
    /\ EvidenceLayerValid(d.evidence_layer)

\* A constructor that validates nothing.
AuditResultAcceptsAnything(audit_json) == TRUE

\* validated = AuditResult(**audit_json) raises nothing.
AuditResultAccepts(audit_json) == SchemaValid(audit_json)

\* ---- the parsed responses the generator may give ----

DraChoices ==
    {[has |-> FALSE, v |-> <<>>]} \cup
    {[has |-> TRUE, v |-> x] : x \in
        {Repeat("present", 8),
         Repeat("weak", 3) \o Repeat("missing", 5),
         Repeat("present", 5) \o Repeat("weak", 4) \o Repeat("missing", 3),
         Repeat("present", 11) \o <<"fragmented">>,
         Repeat("missing", 19)}}

ScoreChoices ==
    {[has |-> FALSE, v |-> Score(0, 0, 0, 0)]} \cup
    {[has |-> TRUE, v |-> x] : x \in
        {Score(5, 4, 3, 12), Score(5, 5, 5, 12), Score(4, 2, 2, 8),
         Score(0, 3, 5, 8), Score(0, 0, 0, 0), Score(19, 0, 0, 12)}}

ArbChoices ==
    {[has |-> FALSE, v |-> <<>>]} \cup
    {[has |-> TRUE, v |-> Repeat("generated", n)] : n \in {3, 10, 21}}

AraChoices == {[has |-> TRUE, v |-> Repeat("generated", n)] : n \in {3, 10}}

MissingElementsChoices == {Repeat("critical", n) : n \in {3, 4}}

\* The sections the generator fills in and the post-processing leaves
\* alone, as they are in a response whose other sections validate.
GeneratedReason == [evidence_refs |-> <<0, 7>>]
GeneratedPackage ==
    [pages_to_build |-> <<>>, example_page_title |-> "",
     who_this_is_for |-> ""]
GeneratedAppendix ==
    [sampled_urls |-> <<>>, pages_analyzed_target |-> 0,
     pages_analyzed_competitors |-> 0]

Response(dra, sc, arb, ara, me, old, ok) ==
    [kind |-> "doc",
     keys |-> (IF dra.has THEN {"decision_readiness_audit"} ELSE {})
              \cup (IF sc.has THEN {"decision_coverage_score"} ELSE {})
              \cup (IF arb.has THEN {"ai_requirements_before"} ELSE {})
              \cup (IF ara.has THEN {"ai_requirements_after"} ELSE {})
              \cup (IF old THEN {"ai_requirements"} ELSE {}),
     decision_readiness_audit |-> dra.v,
     decision_coverage_score |-> sc.v,
     ai_requirements_before |-> arb.v,
     ai_requirements_after |-> ara.v,
     ai_interpretation |-> [missing_elements |-> me],
     rest_ok |-> ok,
     stage_2_why_ai_chooses_others |-> <<GeneratedReason>>,
     stage_4_packages |->
         [ai_entry_10_pages |-> GeneratedPackage,
          ai_recommendation_30_pages |-> GeneratedPackage,
          ai_authority_100_pages |-> GeneratedPackage],
     stage_5_business_impact |-> [neutrality_block |-> "", our_offer_block |-> ""],
     appendix |-> GeneratedAppendix,
     evidence_layer |-> NoLayer]

Responses ==
    {Response(dra, sc, arb, ara, me, old, ok) :
        dra \in DraChoices, sc \in ScoreChoices, arb \in ArbChoices,
        ara \in AraChoices, me \in MissingElementsChoices,
        old \in BOOLEAN, ok \in BOOLEAN}

InitPost ==
    /\ pp_response \in Responses
    /\ pp_done = FALSE
    /\ pp_audit_json = NoDoc
    /\ pp_accepted = FALSE
    /\ pp_direct = "none"

\* One attempt of run_stage_a from the parsed response on: post-process,
\* then validate (accepted, or ValidationError).
ProcessResponse ==
    /\ ~pp_done
    /\ pp_done' = TRUE
    /\ pp_audit_json' = PostProcess(pp_response)
    /\ pp_accepted' = AuditResultAccepts(PostProcess(pp_response))
    /\ UNCHANGED <<pp_response, pp_direct>>

\* test_schema_compatibility: AuditResult(**mock_llm_output), the document
\* handed to the schema as it is.
ValidateDocument ==
    /\ pp_direct = "none"
    /\ pp_direct' = IF AuditResultAccepts(pp_response) THEN "passed" ELSE "failed"
    /\ UNCHANGED <<pp_response, pp_done, pp_audit_json, pp_accepted>>

(***************************************************************************)
(* Generation pipeline: run_audit and the recursive run_stage_a            *)
(* (llm_auditor.py), the steps applied to the validated document, its      *)
(* persistence (report_generator.py), the failure handler of               *)
(* run_audit_pipeline (worker.py) and re-runs (api/routes.py).             *)
(***************************************************************************)

\* run_stage_a(prompt, attempt=1, max_attempts=3)
max_attempts == 3

\* Largest number of pipeline runs of the job (first run and re-runs).
MaxGenRuns == 2

\* A frame of run_stage_a: "body" is about to issue the remote call, "try"
\* awaits the recursive call made inside the try block (truncation retry,
\* line 1346), "handler" awaits the one made inside an except clause
\* (lines 1812 and 1824).
Frame(a, w) == [attempt |-> a, where |-> w]

Front(st) == SubSeq(st, 1, Len(st) - 1)

RECURSIVE RaiseInTry(_), Propagate(_)

\* An exception is raised inside the try block of the top frame: one of
\* its except clauses catches it and retries (a new frame) or raises
\* ValueError out of the frame.  The result is the stack at the next
\* remote call, or <<>> when the error leaves the outermost frame.
RaiseInTry(st) ==
    LET f == st[Len(st)]
    IN IF f.attempt < max_attempts
       THEN Front(st) \o <<Frame(f.attempt, "handler"),
                           Frame(f.attempt + 1, "body")>>
       ELSE Propagate(Front(st))

\* A ValueError leaves a frame and reaches the frames that await it: one
\* awaiting inside its try block catches it (except Exception), one
\* awaiting inside an except clause lets it through.
Propagate(st) ==
    IF st = <<>> THEN <<>>
    ELSE IF st[Len(st)].where = "try" THEN RaiseInTry(st)
    ELSE Propagate(Front(st))

\* The parsed responses the pipeline is run with: a complete one, one with
\* absent and undersized arrays, one with no decision section at all, and
\* three that cannot validate (three missing_elements, an invalid other
\* section, the retired key ai_requirements).
PipelineResponses ==
    LET dra12 == [has |-> TRUE, v |-> Repeat("present", 5) \o Repeat("weak", 4)
                                       \o Repeat("missing", 3)]
        dra8 == [has |-> TRUE, v |-> Repeat("present", 8)]
        none == [has |-> FALSE, v |-> <<>>]
        sc12 == [has |-> TRUE, v |-> Score(5, 4, 3, 12)]
        sc8 == [has |-> TRUE, v |-> Score(4, 2, 2, 8)]
        noscore == [has |-> FALSE, v |-> Score(0, 0, 0, 0)]
        req(n) == [has |-> TRUE, v |-> Repeat("generated", n)]
        me(n) == Repeat("critical", n)
    IN {Response(dra12, sc12, req(10), req(10), me(4), FALSE, TRUE),
        Response(dra8, sc8, none, req(3), me(4), FALSE, TRUE),
        Response(none, noscore, req(10), req(10), me(4), FALSE, TRUE),
        Response(dra12, sc12, req(10), req(10), me(3), FALSE, TRUE),
        Response(dra12, sc12, req(10), req(10), me(4), FALSE, FALSE),
        Response(dra12, sc12, req(10), req(10), me(4), TRUE, TRUE)}

\* What one remote call gives: finish_reason "length", a transport error,
\* text that json.loads and the repair cannot parse, or a parsed response.
Outcomes ==
    {[kind |-> k, response |-> NoDoc] :
        k \in {"truncated", "transport_error", "unparsable"}}
    \cup {[kind |-> "parsed", response |-> r] : r \in PipelineResponses}

\* The stored pages select_representative_pages may hand to run_audit.
HomePage ==
    [url |-> Url("https", "a.com", "/"), domain |-> "a.com",
     nav |-> <<Url("https", "a.com", "/team"), Url("https", "a.com", "/contact")>>,
     lang |-> "", pricing |-> FALSE, email |-> FALSE, org |-> FALSE,
     h1 |-> "", offer |-> "", meta |-> ""]

PricingPage ==
    [url |-> Url("https", "a.com", "/pricing"), domain |-> "a.com",
     nav |-> <<>>, lang |-> "en-US", pricing |-> TRUE, email |-> TRUE,
     org |-> TRUE, h1 |-> "Roof repair", offer |-> "We repair roofs",
     meta |-> "Roofing company in Prague"]

\* A page that detect_page_type files under "service" (a priority page) or,
\* for a blog path, under the other pages.
ContentPage(path) ==
    [url |-> Url("https", "a.com", path), domain |-> "a.com",
     nav |-> <<>>, lang |-> "", pricing |-> FALSE, email |-> FALSE,
     org |-> FALSE, h1 |-> "", offer |-> "", meta |-> ""]

\* select_representative_pages, max_pages=15: priority_pages[:10] +
\* other_pages[:5]; here ten priority pages followed by one blog page.
ElevenPages ==
    <<HomePage, PricingPage>>
    \o [i \in 1..8 |-> ContentPage(<<"/service-1", "/service-2", "/service-3",
                                      "/service-4", "/service-5", "/service-6",
                                      "/service-7", "/service-8">>[i])]
    \o <<ContentPage("/blog-1")>>

SelectedPages ==
    {[target |-> <<>>, competitors |-> 0],
     [target |-> <<HomePage>>, competitors |-> 0],
     [target |-> <<HomePage, PricingPage>>, competitors |-> 1],
     [target |-> ElevenPages, competitors |-> 1]}

\* An appendix that counts one page too few.
AppendixOffByOne(pages, ncomp) ==
    [sampled_urls |-> [i \in 1..Len(Take(pages, 10)) |-> pages[i].url],
     pages_analyzed_target |-> Len(pages) - 1,
     pages_analyzed_competitors |-> ncomp]

\* run_audit, lines 2193-2201: the appendix written over the generated one.
AppendixOf(pages, ncomp) ==
    [sampled_urls |-> [i \in 1..Len(Take(pages, 10)) |-> pages[i].url],
     pages_analyzed_target |-> Len(pages),
     pages_analyzed_competitors |-> ncomp]

\* _enrich_packages_with_architecture: safe_service(i), i counted from 0.
safe_service(i, top3) ==
    IF i < Len(top3) THEN top3[i + 1] ELSE "your core service"

\* A page title: the f-string and the values put into it.
titles_for_10(top3, company_name) ==
    LET s1 == safe_service(0, top3)
        s2 == safe_service(1, top3)
    IN Take(<<<<"How {} Works", s1>>, <<"{} Pricing & Packages", s1>>,
              <<"{} FAQ", s1>>, <<"About {}", company_name>>,
              <<"Contact {}", company_name>>, <<"How {} Works", s2>>>>, 6)

titles_for_30(top3, company_name) ==
    LET s1 == safe_service(0, top3)
        s2 == safe_service(1, top3)
        s3 == safe_service(2, top3)
    IN Take(<<<<"How {} Works", s1>>, <<"{} Pricing & Packages", s1>>,
              <<"{} vs Alternatives", s1>>,
              <<"Common mistakes when choosing {}", s1>>, <<"{} FAQ", s1>>,
              <<"How {} Works", s2>>, <<"{} Pricing & Packages", s2>>,
              <<"{} vs Alternatives", s2>>, <<"How {} Works", s3>>,
              <<"{} Pricing & Packages", s3>>, <<"About {}", company_name>>,
              <<"Contact {}", company_name>>>>, 12)

titles_for_100(top3, company_name, locations) ==
    LET s1 == safe_service(0, top3)
        s2 == safe_service(1, top3)
        base == <<<<"How {} Works", s1>>, <<"{} Pricing & Packages", s1>>,
                  <<"{} vs Alternatives", s1>>, <<"How {} Works", s2>>,
                  <<"{} Pricing & Packages", s2>>, <<"{} vs Alternatives", s2>>,
                  <<"About {}", company_name>>,
                  <<"{} Reviews & Case Studies", company_name>>,
                  <<"{} Certifications & Standards", company_name>>>>
        locs == Take(locations, 3)
        per_loc == FlatMap(locs, [l \in Range(locs) |->
                      <<<<"{} in {}", s1, l>>, <<"{} in {}", s2, l>>>>])
        general == <<<<"Best {} for different buyer situations", s1>>,
                     <<"When to choose {} vs {}", s1, s2>>,
                     <<"Common questions about {}", s1>>>>
    IN Take(base \o (IF locations # <<>> THEN per_loc ELSE general), 18)

\* An enrichment that writes its titles only where the generator left
\* the list empty.
EnrichKeepingGenerated(doc, evidence_layer) ==
    LET cp == evidence_layer.company_profile
        company_name == IF cp.company_name = "" THEN "this domain"
                        ELSE cp.company_name
        top3 == Take(Take(cp.services_detected, 6), 3)
        locations == Take(cp.locations_detected, 5)
        pkg(old, titles) ==
            IF old.pages_to_build # <<>> THEN old
            ELSE [old EXCEPT !.pages_to_build = titles,
                             !.example_page_title = titles[1]]
    IN [doc EXCEPT !.stage_4_packages =
          [ai_entry_10_pages |->
               pkg(@.ai_entry_10_pages, titles_for_10(top3, company_name)),
           ai_recommendation_30_pages |->
               pkg(@.ai_recommendation_30_pages,
                   titles_for_30(top3, company_name)),
           ai_authority_100_pages |->
               pkg(@.ai_authority_100_pages,
                   titles_for_100(top3, company_name, locations))]]

\* _enrich_packages_with_architecture
enrich_packages_with_architecture(doc, evidence_layer) ==
    LET cp == evidence_layer.company_profile
        company_name == IF cp.company_name = "" THEN "this domain"
                        ELSE cp.company_name
        top3 == Take(Take(cp.services_detected, 6), 3)
        locations == Take(cp.locations_detected, 5)
        proof_types == {evidence_layer.evidence[i].proof_type :
                           i \in 1..Len(evidence_layer.evidence)}
        pkg(old, titles) ==
            [old EXCEPT !.pages_to_build = titles,
                        !.example_page_title = titles[1]]
        p10 == pkg(doc.stage_4_packages.ai_entry_10_pages,
                   titles_for_10(top3, company_name))
        p30 == pkg(doc.stage_4_packages.ai_recommendation_30_pages,
                   titles_for_30(top3, company_name))
        p100 == pkg(doc.stage_4_packages.ai_authority_100_pages,
                    titles_for_100(top3, company_name, locations))
    IN [doc EXCEPT !.stage_4_packages =
          [ai_entry_10_pages |-> p10,
           ai_recommendation_30_pages |->
               IF proof_types \cap {"no_pricing", "no_contact",
                                    "weak_entity_signals"} # {}
               THEN [p30 EXCEPT !.who_this_is_for =
                        "Teams that need to fix missing pricing/contact/entity clarity"]
               ELSE p30,
           ai_authority_100_pages |-> p100]]

\* _qa_validate_and_fix: ensure_refs keeps the indexes that exist in the
\* evidence list, falls back to [0], and keeps at most three.
ensure_refs(refs, evidence) ==
    LET out == FilterSeq(refs, 0..(Len(evidence) - 1))
    IN Take(IF out = <<>> /\ evidence # <<>> THEN <<0>> ELSE out, 3)

\* _qa_validate_and_fix, step 1: the evidence refs of the stage 2 reasons,
\* written into the document item by item.
qa_reasons(doc) ==
    LET evidence == doc.evidence_layer.evidence
        reasons == doc.stage_2_why_ai_chooses_others
    IN [doc EXCEPT
          !.stage_2_why_ai_chooses_others =
              [i \in 1..Len(reasons) |->
                  [reasons[i] EXCEPT !.evidence_refs = ensure_refs(@, evidence)]]]

\* _qa_validate_and_fix, step 3: the closing blocks of stage 5.
qa_closing_blocks(doc) ==
    LET blk(old, text) == IF old = "" THEN text ELSE old
    IN [doc EXCEPT
          !.stage_5_business_impact =
              [neutrality_block |->
                   blk(@.neutrality_block, "This audit is platform-agnostic."),
               our_offer_block |->
                   blk(@.our_offer_block, "We can deliver Wave 1 in a fixed scope.")]]

\* _qa_validate_and_fix: evidence refs of the stage 2 reasons and the
\* closing blocks of stage 5.
qa_validate_and_fix(doc) == qa_closing_blocks(qa_reasons(doc))

\* The points of _qa_validate_and_fix at which an exception may end it:
\* nowhere, while the helpers are set up, or after the loop over the
\* reasons (in the loop over the needs).
QaErrorPoints == {"none", "before_reasons", "after_reasons"}

\* _qa_validate_and_fix works on the dict it is given: what has been
\* written when the exception is raised stays written.
qa_until(doc, point) ==
    CASE point = "none" -> qa_validate_and_fix(doc)
      [] point = "before_reasons" -> doc
      [] OTHER -> qa_reasons(doc)

\* run_audit, lines 2193-2218: what is done to the validated document
\* before it is stored and returned.
RunAuditSteps(doc, pages, ncomp) ==
    LET evidence_layer == build_evidence_layer(pages, "a.com", "en-US")
        d1 == [doc EXCEPT !.appendix = AppendixOf(pages, ncomp),
                          !.evidence_layer = evidence_layer]
    IN qa_validate_and_fix(enrich_packages_with_architecture(d1, evidence_layer))

(***************************************************************************)
(* Package enrichment, two runs side by side: the same target pages (and   *)
(* so the same company profile), a locale and a generated document each.   *)
(***************************************************************************)

\* What the generator may have put into a PagePackage.
GeneratedPackageChoices ==
    {[pages_to_build |-> p, example_page_title |-> t, who_this_is_for |-> ""] :
        p \in {<<>>, <<<<"Our services">>, <<"Blog">>>>},
        t \in {<<"Our services">>, <<"Home">>}}

\* A validated document: the three fixed tiers of stage_4_packages.
PackagesDocument(p10, p30, p100) ==
    [kind |-> "doc",
     stage_4_packages |->
         [ai_entry_10_pages |-> p10,
          ai_recommendation_30_pages |-> p30,
          ai_authority_100_pages |-> p100]]

\* The target pages handed to run_audit: none, one, or the selected ones.
EnrichPageSeqs ==
    {sel.target : sel \in SelectedPages}
    \cup {<<p>> : p \in {q \in EvPageChoices : q.nav = <<>>}}

InitEnrich ==
    /\ en_pages \in EnrichPageSeqs
    /\ en_locale \in {<<"en-US", "en-US">>, <<"en-US", "cs-CZ">>}
    /\ en_generated \in
           {<<PackagesDocument(a, a, b), PackagesDocument(c, d, d)>> :
               a, b, c, d \in GeneratedPackageChoices}
    /\ en_result = en_generated
    /\ en_done = {}

\* run_audit, lines 2203-2211, in run i: the evidence layer is attached
\* and the packages are enriched from it.
EnrichRun(i) ==
    /\ i \notin en_done
    /\ LET evidence_layer ==
               build_evidence_layer(en_pages, "a.com", en_locale[i])
       IN en_result' =
              [en_result EXCEPT ![i] =
                  enrich_packages_with_architecture(en_generated[i],
                                                    evidence_layer)]
    /\ en_done' = en_done \cup {i}
    /\ UNCHANGED <<en_pages, en_locale, en_generated>>

NextEnrich == \E i \in {1, 2} : EnrichRun(i)

\* scrape_job as run_audit_pipeline sees it: it raises, or it returns the
\* number of pages stored by the crawl of the target and its competitors.
ScrapeResults ==
    {[raised |-> TRUE, total |-> 0]}
    \cup {[raised |-> FALSE, total |-> n] : n \in {0, 12}}

\* A pipeline that gives up on a crawl without pages.
FailOnZeroPages(total, error_message) ==
    IF total = 0
    THEN [status |-> "failed", error_message |-> "Scraping failed"]
    ELSE [status |-> "scraping", error_message |-> error_message]

\* run_audit_pipeline, limited-data mode: a crawl without pages leaves a
\* note in job.error_message and nothing else; the status is the one
\* scrape_job has set.
LimitedDataMode(total, error_message) ==
    IF total = 0
    THEN [status |-> "scraping", error_message |-> "SCRAPE_LIMITED_DATA"]
    ELSE [status |-> "scraping", error_message |-> error_message]

\* A handler that leaves the status of the job as it finds it.
StatusKept(status) == status

\* run_audit_pipeline, the outer handler: job.status = "failed"
status_after_error(status) == "failed"

\* A handler that does not know the stage.
StageUnknown(stage) == "unknown"

\* run_audit_pipeline, the outer handler: job.current_stage or 'unknown'
stage_or_unknown(stage) == IF stage = "" THEN "unknown" ELSE stage

InitGen ==
    /\ job_status = "pending"
    /\ job_error_message = ""
    /\ job_audit_result = NoDoc
    /\ audit_output = NoDoc
    /\ g_runs = 0
    /\ g_pc = "idle"
    /\ target_pages = <<>>
    /\ competitor_pages = 0
    /\ stack = <<>>
    /\ calls = 0
    /\ stage_a_result = NoDoc
    /\ run_start = <<NoDoc, NoDoc>>
    /\ total_pages = 0
    /\ page_rows = 0
    /\ job_error_stage = ""
    /\ current_stage = ""

\* run_audit_pipeline, stage 1: scrape_job, then the limited-data branch.
\* When scrape_job raises, the job is marked failed.
ScrapeStage ==
    /\ g_pc = "idle"
    /\ job_status = "pending"
    /\ g_runs < MaxGenRuns
    /\ g_runs' = g_runs + 1
    /\ run_start' = <<job_audit_result, audit_output>>
    /\ \E r \in ScrapeResults :
         IF r.raised
         THEN /\ job_status' = status_after_error(job_status)
              /\ job_error_message' = "Scraping failed"
              /\ \E st \in {"scraping_target", "scraping_competitors"} :
                     /\ current_stage' = st
                     /\ job_error_stage' = stage_or_unknown(st)
              /\ UNCHANGED <<g_pc, total_pages, page_rows>>
         ELSE LET after == LimitedDataMode(r.total, job_error_message)
              IN /\ job_status' = after.status
                 /\ job_error_message' = after.error_message
                 /\ job_error_stage' = IF r.total = 0 THEN "" ELSE job_error_stage
                 /\ current_stage' = "scraping_competitors"
                 /\ total_pages' = r.total
                 /\ page_rows' = page_rows + r.total
                 /\ g_pc' = "scraped"
    /\ UNCHANGED <<job_audit_result, audit_output, target_pages,
                   competitor_pages, stack, calls, stage_a_result>>

\* run_audit up to the first call of run_stage_a: status llm_processing,
\* the pages are selected among the rows stored for the job.
StartRunAudit ==
    /\ g_pc = "scraped"
    /\ job_status' = "llm_processing"
    /\ \E sel \in SelectedPages :
           /\ Len(sel.target) + sel.competitors <= page_rows
           /\ target_pages' = sel.target
           /\ competitor_pages' = sel.competitors
    /\ stack' = <<Frame(1, "body")>>
    /\ calls' = 0
    /\ stage_a_result' = NoDoc
    /\ g_pc' = "stage_a"
    /\ current_stage' = "stage_a_core_audit"
    /\ UNCHANGED <<job_error_message, job_audit_result, audit_output, g_runs,
                   run_start, total_pages, page_rows, job_error_stage>>

\* One remote call of run_stage_a and everything up to the next one: the
\* truncation check, parsing, post-processing, validation, the except
\* clauses and the unwinding of the frames.  When the error leaves the
\* outermost frame, run_audit lets it through and run_audit_pipeline
\* marks the job failed.
CallModel ==
    /\ g_pc = "stage_a"
    /\ calls' = calls + 1
    /\ \E o \in Outcomes :
         LET top == stack[Len(stack)]
             audit_json == PostProcess(o.response)
             accepted == o.kind = "parsed" /\ AuditResultAccepts(audit_json)
             st == IF o.kind = "truncated" /\ top.attempt < max_attempts
                   THEN Front(stack) \o <<Frame(top.attempt, "try"),
                                          Frame(top.attempt + 1, "body")>>
                   ELSE RaiseInTry(stack)
         IN IF accepted
            THEN /\ stage_a_result' = audit_json
                 /\ stack' = <<>>
                 /\ g_pc' = "validated"
                 /\ UNCHANGED <<job_status, job_error_message,
                                job_error_stage>>
            ELSE IF st = <<>>
            THEN /\ stack' = <<>>
                 /\ g_pc' = "idle"
                 /\ job_status' = status_after_error(job_status)
                 /\ job_error_message' = "LLM analysis failed"
                 /\ job_error_stage' = stage_or_unknown(current_stage)
                 /\ UNCHANGED stage_a_result
            ELSE /\ stack' = st
                 /\ UNCHANGED <<g_pc, job_status, job_error_message,
                                job_error_stage, stage_a_result>>
    /\ UNCHANGED <<job_audit_result, audit_output, g_runs, target_pages,
                   competitor_pages, run_start, total_pages, page_rows,
                   current_stage>>

\* run_audit after run_stage_a has returned: appendix, evidence layer,
\* package enrichment, QA gate, then job.audit_result is stored.
FinishRunAudit ==
    /\ g_pc = "validated"
    /\ stage_a_result' =
           RunAuditSteps(stage_a_result, target_pages, competitor_pages)
    /\ job_audit_result' = stage_a_result'
    /\ g_pc' = "report"
    /\ UNCHANGED <<job_status, job_error_message, audit_output, g_runs,
                   target_pages, competitor_pages, stack, calls, run_start,
                   total_pages, page_rows, job_error_stage, current_stage>>

\* generate_report: the AuditOutput row is created or updated and the job
\* completed; when it raises, run_audit_pipeline marks the job failed.
GenerateReport ==
    /\ g_pc = "report"
    /\ \E ok \in BOOLEAN :
         IF ok
         THEN /\ audit_output' = stage_a_result
              /\ job_status' = "completed"
              /\ current_stage' = "saving_to_database"
              /\ UNCHANGED <<job_error_message, job_error_stage>>
         ELSE /\ job_status' = status_after_error(job_status)
              /\ job_error_message' = "Report generation failed"
              /\ \E st \in {current_stage, "rendering_html",
                              "saving_to_database"} :
                     /\ current_stage' = st
                     /\ job_error_stage' = stage_or_unknown(st)
              /\ UNCHANGED audit_output
    /\ g_pc' = "idle"
    /\ stage_a_result' = NoDoc
    /\ target_pages' = <<>>
    /\ competitor_pages' = 0
    /\ calls' = 0
    /\ UNCHANGED <<job_audit_result, g_runs, stack, run_start, total_pages,
                   page_rows>>

\* POST /audit/{job_id}/rerun and /retry: a failed or completed job goes
\* back to pending; nothing stored is deleted.
RerunAudit ==
    /\ g_pc = "idle"
    /\ job_status \in {"failed", "completed"}
    /\ job_status' = "pending"
    /\ job_error_message' = ""
    /\ job_error_stage' = ""
    /\ current_stage' = ""
    /\ UNCHANGED <<job_audit_result, audit_output, g_runs, g_pc, target_pages,
                   competitor_pages, stack, calls, stage_a_result, run_start,
                   total_pages, page_rows>>

NextGen ==
    \/ ScrapeStage
    \/ StartRunAudit
    \/ CallModel
    \/ FinishRunAudit
    \/ GenerateReport
    \/ RerunAudit

(***************************************************************************)
(* run_stage_a attempt by attempt: the text of each response, the parse,   *)
(* the repair, the re-parse and the prompt of each retry                   *)
(***************************************************************************)

\* The message of the JSONDecodeError json.loads raises at a defect.
ParserMessage(defect) ==
    CASE defect = "trailing_comma" ->
             "Expecting property name enclosed in double quotes"
      [] defect = "unterminated_string" -> "Unterminated string starting at"
      [] OTHER -> "Expecting value"

\* json.loads over a text with the given defects, in the order of their
\* position: "" when it parses, else the message about the first defect.
json_loads(defects) ==
    IF defects = <<>> THEN "" ELSE ParserMessage(defects[1])

\* run_stage_a, lines 1364-1383: trailing commas before closers are taken
\* out; when the error was an unterminated string the text is cut at the
\* error position and the open strings, brackets and braces are closed,
\* which leaves a shorter document, or one that still does not parse.
repaired_json_str(text, e) ==
    LET NotComma(d) == d # "trailing_comma"
    IN IF e = ParserMessage("unterminated_string")
       THEN [text EXCEPT !.defects = IF text.cut_clean THEN <<>>
                                     ELSE <<"garbage">>,
                         !.response = text.cut_response]
       ELSE [text EXCEPT !.defects = SelectSeq(text.defects, NotComma)]

\* The error of the re-parse is the one that reaches the handler.
ReparseErrorRaised(e, reparse_error) == reparse_error

\* run_stage_a, line 1390: `raise e` raises the error of the first parse.
reraised(e, reparse_error) == e

\* A response that validates, one that does not, and what is left of a
\* response cut inside its first sections.
CompleteResponse ==
    Response([has |-> TRUE, v |-> Repeat("present", 12)],
             [has |-> TRUE, v |-> Score(12, 0, 0, 12)],
             [has |-> TRUE, v |-> Repeat("generated", 10)],
             [has |-> TRUE, v |-> Repeat("generated", 10)],
             Repeat("critical", 4), FALSE, TRUE)

InvalidResponse ==
    [CompleteResponse EXCEPT
        !.ai_interpretation = [missing_elements |-> Repeat("critical", 3)]]

CutResponse ==
    Response([has |-> FALSE, v |-> <<>>],
             [has |-> FALSE, v |-> Score(0, 0, 0, 0)],
             [has |-> FALSE, v |-> <<>>],
             [has |-> FALSE, v |-> <<>>],
             Repeat("critical", 4), FALSE, FALSE)

Text(defects, cut_clean, response) ==
    [defects |-> defects, cut_clean |-> cut_clean, response |-> response,
     cut_response |-> CutResponse]

\* The texts of message.content run_stage_a is run with.
StageATexts ==
    {Text(<<>>, TRUE, CompleteResponse),
     Text(<<>>, TRUE, InvalidResponse),
     Text(<<"trailing_comma">>, TRUE, CompleteResponse),
     Text(<<"unterminated_string">>, TRUE, CompleteResponse),
     Text(<<"unterminated_string">>, FALSE, CompleteResponse),
     Text(<<"trailing_comma", "unterminated_string">>, FALSE, CompleteResponse)}

NoText == Text(<<>>, TRUE, NoDoc)

\* What one remote call gives: finish_reason "length", a transport error,
\* or a text.
StageAOutcomes ==
    {[kind |-> k, text |-> NoText] : k \in {"truncated", "transport_error"}}
    \cup {[kind |-> "text", text |-> t] : t \in StageATexts}

\* A frame of run_stage_a with its prompt argument: the suffixes appended
\* to the first prompt, in order.
StageAFrame(a, w, p) == [attempt |-> a, where |-> w, prompt |-> p]

RECURSIVE RetryOrRaise(_, _), PropagateError(_)

\* A retry that passes attempt + 2.
RetryCountingTwice(st, suffix) ==
    LET f == st[Len(st)]
    IN IF f.attempt < max_attempts
       THEN Front(st) \o <<[f EXCEPT !.where = "handler"],
                           StageAFrame(f.attempt + 2, "body",
                                       Append(f.prompt, suffix))>>
       ELSE PropagateError(Front(st))

\* An exception reaches an except clause of the top frame: a retry with
\* the suffix appended to the frame's prompt, or ValueError out of the
\* frame.
RetryOrRaise(st, suffix) ==
    LET f == st[Len(st)]
    IN IF f.attempt < max_attempts
       THEN Front(st) \o <<[f EXCEPT !.where = "handler"],
                           StageAFrame(f.attempt + 1, "body",
                                       Append(f.prompt, suffix))>>
       ELSE PropagateError(Front(st))

\* The ValueError reaches the awaiting frames: `except Exception` of a
\* frame awaiting inside its try block catches it.
PropagateError(st) ==
    IF st = <<>> THEN <<>>
    ELSE IF st[Len(st)].where = "try" THEN RetryOrRaise(st, <<"schema">>)
    ELSE PropagateError(Front(st))

InitStageA ==
    /\ sa_stack = <<StageAFrame(1, "body", <<>>)>>
    /\ sa_calls = 0
    /\ sa_history = <<>>
    /\ sa_result = NoDoc
    /\ sa_pc = "calling"

\* One remote call of run_stage_a and everything up to the next one or to
\* the end of the outermost frame.
StageAAttempt ==
    /\ sa_pc = "calling"
    /\ sa_calls' = sa_calls + 1
    /\ \E o \in StageAOutcomes :
         LET top == sa_stack[Len(sa_stack)]
             e == IF o.kind = "text" THEN json_loads(o.text.defects) ELSE ""
             repaired == repaired_json_str(o.text, e)
             reparse_error == IF e = "" THEN "" ELSE json_loads(repaired.defects)
             parsed == o.kind = "text" /\ reparse_error = ""
             response == IF e = "" THEN o.text.response ELSE repaired.response
             audit_json == PostProcess(response)
             accepted == parsed /\ AuditResultAccepts(audit_json)
             suffix == CASE o.kind = "truncated" -> <<"truncated">>
                         [] o.kind = "text" /\ ~parsed ->
                                <<"invalid_json", reraised(e, reparse_error)>>
                         [] OTHER -> <<"schema">>
             st == IF o.kind = "truncated" /\ top.attempt < max_attempts
                   THEN Front(sa_stack)
                        \o <<[top EXCEPT !.where = "try"],
                             StageAFrame(top.attempt + 1, "body",
                                         Append(top.prompt, suffix))>>
                   ELSE RetryOrRaise(sa_stack, suffix)
         IN /\ sa_history' = Append(sa_history,
                   [attempt |-> top.attempt, kind |-> o.kind, error |-> e,
                    reparse_error |-> reparse_error,
                    parses |-> IF o.kind # "text" THEN 0
                               ELSE IF e = "" THEN 1 ELSE 2,
                    response |-> IF parsed THEN response ELSE NoDoc])
            /\ IF accepted
               THEN /\ sa_result' = audit_json
                    /\ sa_pc' = "returned"
                    /\ UNCHANGED sa_stack
               ELSE IF st = <<>>
               THEN /\ sa_pc' = "raised"
                    /\ sa_stack' = <<>>
                    /\ UNCHANGED sa_result
               ELSE /\ sa_stack' = st
                    /\ UNCHANGED <<sa_pc, sa_result>>

NextStageA == StageAAttempt

(***************************************************************************)
(* The QA gate over the evidence_refs of a validated document              *)
(***************************************************************************)

\* The evidence_refs lists a validated item may carry: List[int] with no
\* further constraint.
RefChoices == {<<>>, <<0>>, <<0, 7>>, <<7>>}

\* The parts of a validated stage_a_result the QA gate reads, with one
\* item in each list that has evidence_refs.
QaDocument(evidence_layer, reason_refs, element_refs, need_refs) ==
    [evidence_layer |-> evidence_layer,
     stage_2_why_ai_chooses_others |-> <<[evidence_refs |-> reason_refs]>>,
     decision_readiness_audit |->
         <<[status |-> "missing", evidence_refs |-> element_refs]>>,
     stage_3_what_ai_needs |->
         <<[status |-> "not_found", evidence_refs |-> need_refs]>>,
     stage_5_business_impact |-> [neutrality_block |-> "", our_offer_block |-> ""]]

QaDocuments ==
    {QaDocument(build_evidence_layer(sel.target, "a.com", "en-US"), r2, rd, r3) :
        sel \in SelectedPages, r2 \in RefChoices, rd \in RefChoices,
        r3 \in RefChoices}

InitQa ==
    /\ qa_result \in QaDocuments
    /\ qa_done = FALSE
    /\ qa_before = qa_result
    /\ qa_error = FALSE

\* run_audit: self._qa_validate_and_fix(stage_a_result) inside
\* try/except Exception: pass
QaGate ==
    /\ ~qa_done
    /\ \E point \in QaErrorPoints :
           /\ qa_result' = qa_until(qa_result, point)
           /\ qa_error' = (point # "none")
    /\ qa_done' = TRUE
    /\ UNCHANGED qa_before

NextQa == QaGate

(***************************************************************************)
(* Specifications.  Each one runs one component; the variables of the      *)
(* other components keep their idle values.                                *)
(***************************************************************************)

IdleLock ==
    /\ pid_file = NoFile
    /\ wpc = [w \in Workers |-> "not_started"]
    /\ old_pid = [w \in Workers |-> DeadPid]
    /\ locked = [w \in Workers |-> FALSE]
    /\ pid_taken = {}

IdleEvidence ==
    /\ ev_pages = <<>>
    /\ ev_locale = ""
    /\ ev_domain = "a.com"
    /\ ev_done = FALSE
    /\ ev_layer = NoLayer
    /\ ev_calls = 0

IdleCrawl ==
    /\ scraped_pages = EmptyBag
    /\ job_domain = [j \in Jobs |-> "a.com"]
    /\ job_competitors = [j \in Jobs |-> <<>>]
    /\ cr_runs = 0
    /\ cr_pc = "idle"
    /\ cr_job = "job1"
    /\ cr_todo = <<>>
    /\ cr_domain = ""
    /\ cr_is_target = TRUE
    /\ visited = {}
    /\ to_visit = {}
    /\ pages_scraped = 0
    /\ priority_urls = {}
    /\ debug = NewDebug
    /\ total_scraped = 0
    /\ net = <<>>
    /\ robots_content = <<>>
    /\ fetch_result = "no_fetch"
    /\ fetch_reject = ""
    /\ loop_delay = "none"
    /\ max_pages_target = MaxPagesTarget

IdlePost ==
    /\ pp_response = NoDoc
    /\ pp_done = FALSE
    /\ pp_audit_json = NoDoc
    /\ pp_accepted = FALSE
    /\ pp_direct = "none"

IdleGen == InitGen

IdleQa ==
    /\ qa_result = NoDoc
    /\ qa_done = TRUE
    /\ qa_before = NoDoc
    /\ qa_error = FALSE

IdleEnrich ==
    /\ en_pages = <<>>
    /\ en_locale = <<"", "">>
    /\ en_generated = <<NoDoc, NoDoc>>
    /\ en_result = <<NoDoc, NoDoc>>
    /\ en_done = {1, 2}

IdleTail == IdleEnrich

IdleStageA ==
    /\ sa_stack = <<>>
    /\ sa_calls = 0
    /\ sa_history = <<>>
    /\ sa_result = NoDoc
    /\ sa_pc = "returned"

LockInit == InitLock /\ IdleEvidence /\ IdleCrawl /\ IdlePost /\ IdleGen
    /\ IdleStageA
    /\ IdleQa /\ IdleTail
LockNext == NextLock /\ UNCHANGED <<evVars, crawlVars, postVars, genVars,
                  stageAVars, qaVars, tailVars>>
SpecLock == LockInit /\ [][LockNext]_vars

EvidenceInit == InitEvidence /\ IdleLock /\ IdleCrawl /\ IdlePost /\ IdleGen
    /\ IdleStageA
    /\ IdleQa /\ IdleTail
EvidenceNext ==
    BuildEvidence /\ UNCHANGED <<lockVars, crawlVars, postVars, genVars,
                  stageAVars, qaVars, tailVars>>
SpecEvidence == EvidenceInit /\ [][EvidenceNext]_vars

CrawlInit == InitCrawl /\ IdleLock /\ IdleEvidence /\ IdlePost /\ IdleGen
    /\ IdleStageA
    /\ IdleQa /\ IdleTail
CrawlNext == NextCrawl /\ UNCHANGED <<lockVars, evVars, postVars, genVars,
                  stageAVars, qaVars, tailVars>>
SpecCrawl == CrawlInit /\ [][CrawlNext]_vars

\* The crawl loop runs in one coroutine and every fetch returns within its
\* timeout: an iteration that can be made is made, and so is the return.
SpecCrawlFair ==
    /\ SpecCrawl
    /\ WF_vars(CrawlStep /\ UNCHANGED <<lockVars, evVars, postVars, genVars,
                                       stageAVars, qaVars, tailVars>>)
    /\ WF_vars(CrawlReturn /\ UNCHANGED <<lockVars, evVars, postVars, genVars,
                                         stageAVars, qaVars, tailVars>>)

PostInit == InitPost /\ IdleLock /\ IdleEvidence /\ IdleCrawl /\ IdleGen
    /\ IdleStageA
    /\ IdleQa /\ IdleTail
PostNext ==
    (ProcessResponse \/ ValidateDocument) /\ UNCHANGED <<lockVars, evVars, crawlVars, genVars,
                  stageAVars, qaVars, tailVars>>
SpecPost == PostInit /\ [][PostNext]_vars

GenInit == InitGen /\ IdleLock /\ IdleEvidence /\ IdleCrawl /\ IdlePost
    /\ IdleStageA
    /\ IdleQa /\ IdleTail
GenNext == NextGen /\ UNCHANGED <<lockVars, evVars, crawlVars, postVars,
                  stageAVars, qaVars, tailVars>>
SpecGen == GenInit /\ [][GenNext]_vars

\* process_jobs polls in a loop and run_audit_pipeline runs in one
\* coroutine whose remote calls return or time out: a pipeline step that
\* can be made is made.  Nothing makes a user re-queue a job.
\*
\* The fairness of CallModel and FinishRunAudit is written out by the
\* definition of WF, ([]<>~ENABLED <<A>>_vars) \/ ([]<><<A>>_vars), with
\* what ENABLED comes to: CallModel is enabled exactly when g_pc is
\* "stage_a", FinishRunAudit exactly when g_pc is "validated", no other
\* action is enabled there, and FinishRunAudit always leaves "validated".
SpecGenFair ==
    /\ SpecGen
    /\ WF_vars(ScrapeStage /\ UNCHANGED <<lockVars, evVars, crawlVars, postVars,
                                        stageAVars, qaVars, tailVars>>)
    /\ WF_vars(StartRunAudit /\ UNCHANGED <<lockVars, evVars, crawlVars, postVars,
                                        stageAVars, qaVars, tailVars>>)
    /\ WF_vars(GenerateReport /\ UNCHANGED <<lockVars, evVars, crawlVars, postVars,
                                        stageAVars, qaVars, tailVars>>)
    /\ ([]<>(g_pc # "stage_a") \/ []<><<g_pc = "stage_a">>_vars)
    /\ []<>(g_pc # "validated")

StageAInit ==
    InitStageA /\ IdleLock /\ IdleEvidence /\ IdleCrawl /\ IdlePost /\ IdleGen
    /\ IdleQa /\ IdleTail
StageANext ==
    NextStageA /\ UNCHANGED <<lockVars, evVars, crawlVars, postVars, genVars, qaVars, tailVars>>
SpecStageA == StageAInit /\ [][StageANext]_vars

QaInit ==
    /\ InitQa /\ IdleLock /\ IdleEvidence /\ IdleCrawl /\ IdlePost /\ IdleGen
    /\ IdleStageA /\ IdleTail
QaNext ==
    NextQa /\ UNCHANGED <<lockVars, evVars, crawlVars, postVars, genVars,
                          stageAVars, tailVars>>
SpecQa == QaInit /\ [][QaNext]_vars

EnrichInit ==
    /\ InitEnrich /\ IdleLock /\ IdleEvidence /\ IdleCrawl /\ IdlePost
    /\ IdleGen /\ IdleStageA /\ IdleQa
EnrichNext ==
    NextEnrich /\ UNCHANGED <<lockVars, evVars, crawlVars, postVars, genVars,
                              stageAVars, qaVars>>
SpecEnrich == EnrichInit /\ [][EnrichNext]_vars

(***************************************************************************)
(* Claims                                                                  *)
(***************************************************************************)

\* Rows of table scraped_pages that belong to job j.
RowsOfJob(j) == {r \in BagToSet(scraped_pages) : r.audit_job_id = j}

\* C1: after any sequence of crawls (target, competitors, re-runs) no two
\* stored page rows of one job carry the same url_hash.
C1_OnePagePerKeyPerJob ==
    \A r \in BagToSet(scraped_pages) :
        /\ CopiesIn(r, scraped_pages) = 1
        /\ \A q \in BagToSet(scraped_pages) :
               (q.audit_job_id = r.audit_job_id /\ q.url_hash = r.url_hash)
                   => q = r

\* C1 witness: the second crawl run has passed its homepage save while the
\* job already holds two or more rows; the homepage save adds at most one
\* row, so the job is being crawled again over pages stored by its
\* earlier run.
C1_RerunOverStoredPages ==
    /\ cr_runs = 2
    /\ cr_pc = "sitemap"
    /\ cr_is_target
    /\ Cardinality(RowsOfJob(cr_job)) >= 2

\* C6: no request put on the network during a crawl (robots.txt, sitemap
\* candidates, homepage, pages, redirect hops) targets a non-http(s) URL or
\* a loopback, link-local, private or localhost host.
C6_EveryRequestIsSafe == \A i \in 1..Len(net) : is_safe_url(net[i])

\* scrape_domain has returned because the homepage fetch gave no result.
HomepageFailed ==
    /\ cr_pc = "returned"
    /\ ~debug.robots_disallows_all
    /\ visited = {}

\* The recount of a status array: entries per status, and its length.
Recount(elements) ==
    Score(Count(elements, "present"), Count(elements, "weak"),
          Count(elements, "missing"), Len(elements))

\* C8: for every parsed response whose decision_readiness_audit is a list
\* and that reports a decision_coverage_score, the score after
\* post-processing equals the recount of the (possibly padded) array.
C8_ScoreEqualsRecount ==
    (/\ pp_done
     /\ "decision_readiness_audit" \in pp_response.keys
     /\ "decision_coverage_score" \in pp_response.keys)
    => pp_audit_json.decision_coverage_score =
           Recount(pp_audit_json.decision_readiness_audit)

\* A parsed response whose only defects are required arrays that are
\* absent or shorter than their schema minimum.
OnlyArrayDefects(r) ==
    /\ r.rest_ok
    /\ "ai_requirements" \notin r.keys
    /\ "decision_coverage_score" \in r.keys
    /\ DecisionCoverageScoreValid(r.decision_coverage_score)
    /\ Len(r.decision_readiness_audit) <= dra_max
    /\ \A i \in 1..Len(r.decision_readiness_audit) :
           r.decision_readiness_audit[i] \in {"present", "weak", "missing"}
    /\ Len(r.ai_requirements_before) <= req_max
    /\ Len(r.ai_requirements_after) <= req_max
    /\ Len(r.ai_interpretation.missing_elements) <= missing_elements_max

\* C9: when the only defects of a parsed response are absent or undersized
\* required arrays, post-processing brings each of the four arrays up to
\* its schema minimum and the document is accepted on that attempt.
C9_UndersizedArraysPadded ==
    (pp_done /\ OnlyArrayDefects(pp_response)) =>
        /\ Len(pp_audit_json.decision_readiness_audit) >= dra_min
        /\ Len(pp_audit_json.ai_requirements_before) >= req_min
        /\ Len(pp_audit_json.ai_requirements_after) >= req_min
        /\ Len(pp_audit_json.ai_interpretation.missing_elements)
               >= missing_elements_min
        /\ pp_accepted

\* C10: whenever the homepage fetch fails the crawl of the domain returns
\* zero pages and a blocked reason among firewall/rate-limit, timeout, DNS,
\* TLS, connection and unknown.
C10_HomepageFailureClassified ==
    HomepageFailed =>
        /\ pages_scraped = 0
        /\ debug.blocked_reason \in
               {"403_waf", "timeout", "dns", "ssl", "connection", "unknown"}

\* C2: the document run_audit returns (after the appendix overwrite, the
\* evidence-layer attachment, the package enrichment and the QA gate)
\* satisfies the AuditResult schema, and a run that ends in the fatal
\* generation error returns no document.
C2_ReturnedDocumentIsSchemaValid ==
    /\ g_pc \in {"validated", "report"} => SchemaValid(stage_a_result)
    /\ (job_status = "failed" /\ job_error_message = "LLM analysis failed")
           => stage_a_result = NoDoc

\* C2 witness: run_audit has returned a document that was padded by the
\* post-processing and has gone through all four later steps.
C2_ReturnedAfterAllSteps ==
    /\ g_pc = "report"
    /\ stage_a_result.appendix.pages_analyzed_target = 2
    /\ stage_a_result.evidence_layer.evidence # <<>>
    /\ stage_a_result.stage_4_packages.ai_entry_10_pages.pages_to_build # <<>>
    /\ stage_a_result.stage_2_why_ai_chooses_others[1].evidence_refs = <<0>>
    /\ stage_a_result.stage_5_business_impact.neutrality_block # ""
    /\ stage_a_result.ai_requirements_before = Take(fallback_requirements, 10)

\* C3: the documents persisted for the job (job.audit_result and the
\* AuditOutput row) passed schema validation, and a run that ends in the
\* fatal generation error leaves both as they were when it started.
C3_PersistedDocumentsAreValid ==
    /\ job_audit_result # NoDoc => SchemaValid(job_audit_result)
    /\ audit_output # NoDoc => SchemaValid(audit_output)
    /\ (job_status = "failed" /\ job_error_message = "LLM analysis failed")
           => <<job_audit_result, audit_output>> = run_start

\* C3 witness: a re-run has ended in the fatal generation error after
\* rejected drafts, and the job still holds the document of its first run.
C3_FailedRerunKeepsOldDocument ==
    /\ g_runs = 2
    /\ job_status = "failed"
    /\ job_error_message = "LLM analysis failed"
    /\ calls >= max_attempts
    /\ job_audit_result # NoDoc
    /\ audit_output # NoDoc

\* C5: one run of the Stage A generation loop issues at most max_attempts
\* remote generation calls, whatever the outcomes of the calls are.
C5_AtMostMaxAttemptsCalls == calls <= max_attempts

\* C13: a target crawl that returns zero pages does not fail the job; the
\* pipeline goes on to the generation stage, and from there the job
\* becomes failed only when the generation or the report stage raises.
C13_ZeroPagesDoNotFailJob ==
    [][/\ (g_pc = "idle" /\ g_pc' = "scraped" /\ total_pages' = 0)
            => job_status' # "failed"
       /\ (g_pc = "scraped" /\ total_pages = 0)
            => (g_pc' = "stage_a" /\ job_status' = "llm_processing")
       /\ (g_pc \in {"stage_a", "validated", "report"} /\ total_pages = 0
              /\ job_status' = "failed")
            => job_error_message' \in {"LLM analysis failed",
                                       "Report generation failed"}]_vars

\* C13 witness: a job whose crawl stored no page at all has completed in
\* limited-data mode.
C13_CompletedWithoutPages ==
    /\ job_status = "completed"
    /\ job_error_message = "SCRAPE_LIMITED_DATA"
    /\ total_pages = 0
    /\ page_rows = 0
    /\ audit_output # NoDoc

\* C14: after the homepage has succeeded, a loop step whose fetch_page
\* returns None stays in the loop, marks the popped URL visited, counts
\* the failure in pages_failed and leaves the stored pages and the rest
\* of the frontier as they are.
C14_FailedPageCountedAndSkipped ==
    [][(cr_pc = "loop" /\ fetch_result' = "none")
         => /\ cr_pc' = "loop"
            /\ \E url \in to_visit :
                   /\ visited' = visited \cup {url}
                   /\ to_visit' = to_visit \ {url}
            /\ scraped_pages' = scraped_pages
            /\ pages_scraped' = pages_scraped
            /\ debug'.pages_failed = debug.pages_failed + 1]_vars

\* C15: the crawl loop of a domain terminates; it returns only with an
\* empty frontier or a used-up page budget; every URL taken from the
\* frontier is in visited afterwards, visited only grows during the
\* loop, and no visited URL is in the frontier.
C15_CrawlLoopTerminates ==
    /\ (cr_pc = "loop") ~> (cr_pc = "returned")
    /\ []((cr_pc = "returned" /\ visited # {})
            => (to_visit = {}
                \/ pages_scraped >= max_pages_of(cr_is_target)))
    /\ [](cr_pc = "loop" => to_visit \cap visited = {})
    /\ [][(cr_pc = "loop" /\ cr_pc' = "loop")
            => /\ visited \subseteq visited'
               /\ (to_visit \ to_visit') \subseteq visited']_vars

\* C15 witness: a loop has returned with URLs left in the frontier after
\* several iterations, failed fetches among them.
C15_ReturnedOnBudget ==
    /\ cr_pc = "returned"
    /\ to_visit # {}
    /\ pages_scraped = max_pages_of(cr_is_target)
    /\ Cardinality(visited) > pages_scraped
    /\ debug.pages_failed > 0

\* C16: whatever page budget a domain crawl is given, the number of pages
\* it counts as scraped stays within the budget, and every page it stores
\* is counted.
C16_PagesWithinBudget ==
    /\ [](pages_scraped <= max_pages_of(cr_is_target))
    /\ [][BagCardinality(scraped_pages') # BagCardinality(scraped_pages)
            => /\ BagCardinality(scraped_pages')
                    = BagCardinality(scraped_pages) + 1
               /\ pages_scraped' = pages_scraped + 1]_vars

\* C17: the frontier is consumed in priority order: a loop step that
\* fetches a URL fetches one whose tier is the lowest among the URLs
\* waiting in the frontier.
C17_FrontierConsumedByTier ==
    [][(cr_pc = "loop" /\ fetch_result' # "no_fetch" /\ net' # <<>>)
         => \A u \in to_visit :
                identify_page_priority(net'[1]) <= identify_page_priority(u)]_vars

\* The call of run_stage_a number i gave a text that neither json.loads
\* nor the repair could parse.
Unparsable(i) ==
    /\ sa_history[i].kind = "text"
    /\ sa_history[i].reparse_error # ""

\* The call number i gave a text that parsed and validated.
Valid(i) ==
    /\ sa_history[i].kind = "text"
    /\ sa_history[i].reparse_error = ""
    /\ AuditResultAccepts(PostProcess(sa_history[i].response))

\* C18: after an unparsable response on attempt 1 and a valid one on
\* attempt 2, run_stage_a has returned the document of attempt 2 after
\* exactly 2 calls, and the accepting frame carries attempt number 2.
C18_SecondAttemptDocumentReturned ==
    (Len(sa_history) >= 2 /\ Unparsable(1) /\ Valid(2))
        => /\ sa_pc = "returned"
           /\ sa_result = PostProcess(sa_history[2].response)
           /\ sa_calls = 2
           /\ Len(sa_history) = 2
           /\ sa_history[2].attempt = 2
           /\ sa_stack[Len(sa_stack)].attempt = 2

\* C18 witness: run_stage_a has returned after an unparsable first and a
\* valid second response.
C18_ReturnedOnSecondAttempt ==
    /\ sa_pc = "returned"
    /\ Len(sa_history) = 2
    /\ Unparsable(1)
    /\ Valid(2)
    /\ sa_history[1].attempt = 1

\* The call number i gave a text that json.loads rejected and the repair
\* made parsable.
Repaired(i) ==
    /\ sa_history[i].kind = "text"
    /\ sa_history[i].error # ""
    /\ sa_history[i].reparse_error = ""

\* The suffix the latest retry appended to the prompt.
LastSuffix ==
    LET prompt == sa_stack[Len(sa_stack)].prompt
    IN prompt[Len(prompt)]

\* C19: a text is parsed once, and once more after the repair exactly when
\* the first parse failed; a retry whose prompt carries a parser message
\* follows only a failed re-parse and carries the message of the first
\* parse; a failed re-parse below the last attempt is followed by such a
\* retry; a repaired text is followed by no such retry, and a repaired
\* text that validates is returned by the same call.
C19_RepairBeforeCorrectiveRetry ==
    /\ \A i \in 1..Len(sa_history) :
           sa_history[i].kind = "text"
               => sa_history[i].parses = IF sa_history[i].error = "" THEN 1
                                         ELSE 2
    /\ sa_history # <<>> =>
         LET n == Len(sa_history)
             retried == sa_pc = "calling"
         IN /\ (retried /\ LastSuffix[1] = "invalid_json")
                  => (Unparsable(n) /\ LastSuffix[2] = sa_history[n].error)
            /\ (Unparsable(n) /\ sa_history[n].attempt < max_attempts)
                  => /\ retried
                     /\ LastSuffix = <<"invalid_json", sa_history[n].error>>
                     /\ sa_stack[Len(sa_stack)].attempt
                            = sa_history[n].attempt + 1
            /\ (Repaired(n) /\ retried) => LastSuffix = <<"schema">>
            /\ (Repaired(n) /\ AuditResultAccepts(
                                  PostProcess(sa_history[n].response)))
                  => (sa_pc = "returned" /\ sa_calls = n)

\* C19 witness: after a repaired text that did not validate, a text whose
\* re-parse failed with another message than its first parse is being
\* retried with the message of the first parse.
C19_RetryAfterFailedReparse ==
    /\ Len(sa_history) = 2
    /\ Repaired(1)
    /\ Unparsable(2)
    /\ sa_history[2].error # sa_history[2].reparse_error
    /\ sa_pc = "calling"
    /\ LastSuffix = <<"invalid_json", sa_history[2].error>>

\* The evidence_refs of an item point into the evidence catalog, and are
\* not empty when the catalog is not.
RefsValid(item, evidence) ==
    /\ \A k \in 1..Len(item.evidence_refs) :
           /\ 0 <= item.evidence_refs[k]
           /\ item.evidence_refs[k] < Len(evidence)
    /\ evidence # <<>> => item.evidence_refs # <<>>

\* C20: after the QA gate every Stage 2 reason, every decision-readiness
\* item and every Stage 3 need has evidence_refs that point into the
\* evidence catalog, at least one when the catalog is not empty.
C20_AllEvidenceRefsValid ==
    (qa_done /\ ~qa_error) =>
        LET evidence == qa_result.evidence_layer.evidence
            items == qa_result.stage_2_why_ai_chooses_others
                     \o qa_result.decision_readiness_audit
                     \o qa_result.stage_3_what_ai_needs
        IN \A i \in 1..Len(items) : RefsValid(items[i], evidence)

ZeroPagesProfile(company_name) ==
    [company_name |-> company_name,
     primary_offer_summary |-> "not detected",
     services_detected |-> <<>>,
     locations_detected |-> <<>>,
     primary_language_detected |-> "not detected",
     top_pages |-> <<>>]

\* C24 as stated: given zero pages, every field of the company profile is
\* present, company_name is the fallback domain, the offer summary and
\* the language are "not detected" and the three lists are empty.
C24_ZeroPagesProfileNamesFallbackDomain ==
    (ev_done /\ ev_pages = <<>>) =>
        ev_layer.company_profile = ZeroPagesProfile(ev_domain)

\* C24 amended: the same, with company_name the fallback domain or, when
\* the fallback domain is empty, the literal "this domain".
C24_ZeroPagesProfileIsPopulated ==
    (ev_done /\ ev_pages = <<>>) =>
        ev_layer.company_profile =
            ZeroPagesProfile(IF ev_domain = "" THEN "this domain" ELSE ev_domain)

\* C24 witness: build_evidence_layer has returned for zero pages and an
\* empty fallback domain.
C24_ZeroPagesEmptyDomain ==
    /\ ev_done
    /\ ev_pages = <<>>
    /\ ev_domain = ""
    /\ ev_layer.company_profile.company_name = "this domain"

\* The rule of build_evidence_items that emits items of a proof type.
RuleOf(proof_type) ==
    CASE proof_type \in {"pricing_present", "no_pricing"} -> "pricing"
      [] proof_type \in {"contact_present", "no_contact"} -> "contact"
      [] proof_type \in {"entity_signals_present", "weak_entity_signals"}
             -> "entity signals"
      [] proof_type = "language_mismatch" -> "language match"
      [] OTHER -> "content fragmentation"

\* The rules that have an item in the catalog.
RulesWithItem(evidence) ==
    {RuleOf(evidence[i].proof_type) : i \in 1..Len(evidence)}

\* C25: for every page set and locale, the catalog has an item of each of
\* the five rules: pricing, contact, entity signals, language match and
\* content fragmentation.
C25_EveryRuleEmitsAnItem ==
    ev_done =>
        RulesWithItem(ev_layer.evidence) =
            {"pricing", "contact", "entity signals", "language match",
             "content fragmentation"}

\* C26: the evidence catalog returned by build_evidence_layer has at most
\* 12 items, and each item has at most 3 source URLs and 3 snippets.
C26_CatalogIsBounded ==
    ev_done =>
        /\ Len(ev_layer.evidence) <= 12
        /\ \A i \in 1..Len(ev_layer.evidence) :
               /\ Len(ev_layer.evidence[i].source_urls) <= 3
               /\ Len(ev_layer.evidence[i].snippets) <= 3

\* C26 witness: the profile lists more than three top pages and an item
\* of the returned catalog cites three of them.
C26_SourceUrlsWereCut ==
    /\ ev_done
    /\ Len(ev_layer.company_profile.top_pages) > 3
    /\ \E i \in 1..Len(ev_layer.evidence) :
           /\ ev_layer.evidence[i].proof_type = "no_pricing"
           /\ ev_layer.evidence[i].source_urls
                  = SubSeq(ev_layer.company_profile.top_pages, 1, 3)

\* Worker w is about to probe the pid it read from the lease, and that pid
\* is the pid of a worker process that has started and has not ended.
ProbesLiveHolder(w) ==
    /\ wpc[w] = "acq_kill"
    /\ old_pid[w] \in Workers
    /\ wpc[old_pid[w]] \in {"acq_exists", "acq_read", "acq_kill", "acq_write",
                             "running", "rel_exists", "rel_read", "rel_unlink"}

\* C27: a worker whose acquire() finds the lease naming a live process
\* fails fast: its next step leaves the lease record as it is, does not
\* take the lock, and ends the process before init_db() and
\* process_jobs() are reached.
C27_LiveLeaseFailsFast ==
    [][\A w \in Workers :
          (ProbesLiveHolder(w) /\ wpc'[w] # wpc[w]) =>
              /\ wpc'[w] = "exited"
              /\ pid_file' = pid_file
              /\ locked'[w] = FALSE]_vars

\* C27 witness: a worker has ended without ever taking the lock while the
\* worker named by the lease, whose pid it had read, is running.
C27_SecondWorkerRefused ==
    \E w \in Workers :
        /\ wpc[w] = "exited"
        /\ ~locked[w]
        /\ old_pid[w] \in Workers \ {w}
        /\ wpc[old_pid[w]] = "running"
        /\ pid_file = PidFileOf(old_pid[w])

\* After the exit of a worker the lease record does not name it.
ExitedWorkerNotNamed ==
    \A w \in Workers : wpc[w] = "exited" => pid_file # PidFileOf(w)

\* The unlink of release() by worker w removes a record that names w.
ReleaseRemovesOwnRecordOnly ==
    \A w \in Workers :
        (wpc[w] = "rel_unlink" /\ wpc'[w] # wpc[w] /\ pid_file' # pid_file)
            => pid_file = PidFileOf(w)

\* C28: a worker that holds the lease releases it on every exit path, so
\* that after its exit the lease record no longer names it, and release()
\* removes the record only when it names the releasing worker, never a
\* record naming another worker.
C28_ReleaseOnExitOwnRecordOnly ==
    [][ExitedWorkerNotNamed' /\ ReleaseRemovesOwnRecordOnly]_vars

\* C29: when the fatal error of the generation stage leaves run_audit,
\* the job ends with status "failed" and an error message that carries the
\* pipeline stage that was current when the error was raised.
C29_FatalErrorNamesCurrentStage ==
    [][(g_pc = "stage_a" /\ g_pc' = "idle") =>
          /\ job_status' = "failed"
          /\ job_error_message' = "LLM analysis failed"
          /\ current_stage # ""
          /\ job_error_stage' = current_stage]_vars

\* C29 witness: a job has failed in the generation stage after three
\* remote calls and its message names the stage of the core audit.
C29_FailedInCoreAudit ==
    /\ job_status = "failed"
    /\ job_error_message = "LLM analysis failed"
    /\ job_error_stage = "stage_a_core_audit"
    /\ current_stage = "stage_a_core_audit"
    /\ calls >= max_attempts

\* C30: an iteration of the crawl loop whose fetch was turned down for
\* its content type or its size stores nothing, leaves the stored-page
\* count and the failed-page counter of the debug record as they were,
\* and leaves the crawl in its loop.
C30_RejectedResponseIsSkipped ==
    [][(cr_pc = "loop" /\ to_visit' # to_visit /\ fetch_reject' # "") =>
          /\ scraped_pages' = scraped_pages
          /\ pages_scraped' = pages_scraped
          /\ debug'.pages_failed = debug.pages_failed
          /\ cr_pc' = "loop"]_vars

\* C30 witness: after a stored homepage, a page was turned down for its
\* size, and the crawl loop has pages left to visit.
C30_OversizePageSkipped ==
    /\ cr_pc = "loop"
    /\ fetch_reject = "size"
    /\ fetch_result = "none"
    /\ pages_scraped = 1
    /\ debug.pages_failed = 0
    /\ to_visit # {}

\* C31: page fetches of a domain crawl are sequential, and the fixed
\* delay has elapsed between every two consecutive page fetches of the
\* main loop: an iteration that sends a request finds the loop either
\* before its first fetch or after a sleep.
C31_DelayBetweenLoopFetches ==
    [][(cr_pc = "loop" /\ cr_pc' = "loop" /\ net' # <<>>
        /\ fetch_result' # "no_fetch") => loop_delay # "fetched"]_vars

\* C32: a response that carries the undeclared top-level field
\* ai_requirements is rejected by the schema validation of its attempt,
\* whatever its other sections hold.
C32_UnknownFieldIsRejected ==
    (pp_done /\ "ai_requirements" \in pp_response.keys) => ~pp_accepted

\* C32 witness: a response was rejected that carries ai_requirements and
\* would have validated without it.
C32_RejectedForUnknownFieldOnly ==
    /\ pp_done
    /\ ~pp_accepted
    /\ "ai_requirements" \in pp_audit_json.keys
    /\ SchemaValid([pp_audit_json EXCEPT !.keys = @ \ {"ai_requirements"}])

\* The document of test_schema_compatibility, as far as the schema's
\* constraints tell documents apart: all required sections, 8 audit items
\* (3 weak, 5 missing), score 0/3/5 of 8, 4 missing_elements, 10 + 10
\* requirements, no undeclared field.
IsCompatibilityDocument(d) ==
    /\ d.kind = "doc"
    /\ d.rest_ok
    /\ d.keys = DeclaredKeys
    /\ d.decision_readiness_audit = Repeat("weak", 3) \o Repeat("missing", 5)
    /\ d.decision_coverage_score = Score(0, 3, 5, 8)
    /\ Len(d.ai_interpretation.missing_elements) = 4
    /\ Len(d.ai_requirements_before) = 10
    /\ Len(d.ai_requirements_after) = 10

\* C33: schema validation accepts the document of
\* test_schema_compatibility (8 audit items, score total 8, 4
\* missing_elements, 10 + 10 requirements, every section present).
C33_CompatibilityDocumentValidates ==
    (IsCompatibilityDocument(pp_response) /\ pp_direct # "none")
        => pp_direct = "passed"

\* C34: the sampled-URL list written into the appendix by run_audit is
\* exactly the set of URLs of the analyzed target pages, and
\* pages_analyzed_target equals the length of that list.
C34_SampledUrlsAreTheAnalyzedPages ==
    g_pc = "report" =>
        /\ Range(stage_a_result.appendix.sampled_urls)
               = {target_pages[i].url : i \in 1..Len(target_pages)}
        /\ stage_a_result.appendix.pages_analyzed_target
               = Len(stage_a_result.appendix.sampled_urls)

\* C35: pages are scoped per job: a crawl that has counted a page for the
\* job's domain has a Page row of that job for the domain, whatever rows
\* other jobs hold for the same URLs.
C35_CountedCrawlHasOwnPage ==
    (cr_pc \in {"sitemap", "loop", "returned"} /\ pages_scraped > 0)
        => \E r \in RowsOfJob(cr_job) :
               r.domain = cr_domain /\ r.is_target = cr_is_target

\* C36: in every step of scrape_domain the scraped count grows by exactly
\* the number of Page rows the step stored, so the returned pages_scraped
\* equals the number of rows the crawl stored (first run, re-run over
\* stored pages, store rejected by the uniqueness constraint).
C36_CountEqualsStoredRows ==
    [][(cr_pc \in {"homepage", "loop"})
          => (pages_scraped' - pages_scraped
                 = BagCardinality(scraped_pages')
                       - BagCardinality(scraped_pages))]_vars

\* C37: every URL a domain crawl requests as a page (the homepage and the
\* URLs taken from the frontier) and every Page it stores has the crawled
\* domain as its host.
C37_CrawlStaysOnDomain ==
    /\ (fetch_result # "no_fetch" /\ net # <<>>) => net[1].host = cr_domain
    /\ \A r \in BagToSet(scraped_pages) : r.url.host = r.domain

PickedUpJobLeavesPending ==
    [][(g_runs' = g_runs + 1 \/ (g_pc # "idle" /\ g_pc' = "idle"))
          => job_status' # "pending"]_vars

\* The lease record worker w has read names a worker process that has
\* started and has not ended.
ReadLiveWorker(w) ==
    /\ old_pid[w] \in Workers
    /\ wpc[old_pid[w]] \notin {"not_started", "exited", "crashed"}

\* C39: a lease record left by a worker that no longer runs, or one with
\* unreadable content, does not keep a worker from starting: acquire()
\* refuses a worker only when the record it read names a worker that is
\* still there; otherwise the worker goes on to write its own pid.
C39_StaleLeaseIsTakenOver ==
    [][\A w \in Workers :
          (wpc[w] \in {"acq_read", "acq_kill"} /\ wpc'[w] = "exited")
              => ReadLiveWorker(w)]_vars

\* The names of the three fixed tiers of stage_4_packages.
Tiers ==
    {"ai_entry_10_pages", "ai_recommendation_30_pages",
     "ai_authority_100_pages"}

\* C22: after the enrichment of two runs with the same company profile,
\* pages_to_build and example_page_title of each of the three tiers are
\* identical in both, whatever the generator put there.
C22_EnrichedTitlesDependOnProfileOnly ==
    en_done = {1, 2} /\ en_generated[1] # NoDoc =>
        \A t \in Tiers :
            LET a == en_result[1].stage_4_packages[t]
                b == en_result[2].stage_4_packages[t]
            IN /\ a.pages_to_build = b.pages_to_build
               /\ a.example_page_title = b.example_page_title

\* C22 witness: both runs are enriched, the generator had given them
\* different lists and titles, the evidence of the two runs differs, and
\* a service and a location of the profile are in the titles.
C22_DifferentOutputsEnriched ==
    /\ en_done = {1, 2}
    /\ en_generated[1] # NoDoc
    /\ \A t \in Tiers :
           /\ en_generated[1].stage_4_packages[t].pages_to_build
                  # en_generated[2].stage_4_packages[t].pages_to_build
           /\ en_generated[1].stage_4_packages[t].example_page_title
                  # en_generated[2].stage_4_packages[t].example_page_title
    /\ build_evidence_layer(en_pages, "a.com", en_locale[1]).evidence
           # build_evidence_layer(en_pages, "a.com", en_locale[2]).evidence
    /\ en_result[1].stage_4_packages.ai_entry_10_pages.pages_to_build[1]
           = <<"How {} Works", "Roof repair">>
    /\ Len(en_result[1].stage_4_packages.ai_authority_100_pages.pages_to_build) = 11

\* scrape_domain has returned after a homepage fetch answered HTTP 403.
HomepageAnswered403 ==
    /\ cr_pc = "returned"
    /\ debug.homepage_status_code = 403

\* C11 as stated: a homepage fetch answered with HTTP 403 makes the crawl
\* return 0 pages with blocked reason "firewall".
C11_Homepage403IsFirewall ==
    HomepageAnswered403 =>
        pages_scraped = 0 /\ debug.blocked_reason = "firewall"

\* C11 amended: a homepage fetch answered with HTTP 403 makes the crawl
\* return 0 pages with blocked reason "403_waf".
C11_Homepage403Is403Waf ==
    HomepageAnswered403 =>
        pages_scraped = 0 /\ debug.blocked_reason = "403_waf"

\* C11 witness: a crawl has returned after its homepage answered 403.
C11_Homepage403Returned == HomepageAnswered403 /\ visited = {}

\* The wildcard group of a robots.txt holds the rule "disallow: /": the
\* rule follows a "user-agent: *" line with no other user-agent line in
\* between.
WildcardGroupDisallowsAll(lines) ==
    \E i \in 1..Len(lines) :
        /\ lines[i] = "user-agent: *"
        /\ \E j \in (i + 1)..Len(lines) :
               /\ lines[j] = "disallow: /"
               /\ \A k \in (i + 1)..(j - 1) :
                      lines[k] \notin {"user-agent: *", "user-agent: bot"}

\* C12: when the robots.txt just read disallows "/" for the wildcard
\* agent, wherever the rule stands in the group, the crawl returns 0
\* pages with blocked reason "robots_disallow" and goes on to no fetch.
C12_BlanketDisallowHaltsCrawl ==
    WildcardGroupDisallowsAll(robots_content) =>
        /\ cr_pc = "returned"
        /\ pages_scraped = 0
        /\ debug.blocked_reason = "robots_disallow"

\* C4: at most one worker at a time has acquire() returned True and is
\* polling for or processing jobs, under every interleaving of start-ups.
C4_AtMostOneWorkerRunning ==
    Cardinality({w \in Workers : wpc[w] = "running"}) <= 1

\* C7: every source URL of every emitted EvidenceItem is the URL of one of
\* the pages handed to build_evidence_layer, and every confidence lies
\* between 0 and 1 (0 and 100 hundredths).
C7_EvidenceCitesFetchedPages ==
    ev_done =>
        \A i \in 1..Len(ev_layer.evidence) :
            LET e == ev_layer.evidence[i] IN
            /\ \A u \in Range(e.source_urls) :
                   \E k \in 1..Len(ev_pages) : ev_pages[k].url = u
            /\ 0 <= e.confidence /\ e.confidence <= 100

=============================================================================
